---- MODULE Spec2Model ----
(***************************************************************************)
(* Pose-to-rig mapping of PoseEstimationPython.                            *)
(*                                                                         *)
(* Units.  Angles are integers counting tenths of a degree (450 = 45.0     *)
(* degrees); confidences are integers counting hundredths (25 = 0.25).     *)
(* In the rig and frame-loop models the arithmetic is exact: keypoint     *)
(* coordinates are small integers chosen so that every bone vector points  *)
(* along one of the eight compass directions, where atan2 is a multiple    *)
(* of 45 degrees and the sums are exact.  The rounding of floats is        *)
(* modelled where ang_norm and ang_diff are studied on their own.          *)
(***************************************************************************)
EXTENDS Integers, Sequences, FiniteSets, TLC

VARIABLES
    actorParts,        \* the Actor: part name -> joint identifiers it exposes
    FIXED_OVERRIDES,   \* domain.config.FIXED_OVERRIDES: joint -> channel -> value
    controlled,        \* Panda3DRigController.controlled (its key set)
    base_hpr,          \* Panda3DRigController.base_hpr
    hpr,               \* local rotation of every controlled joint node
    calls,             \* apply_pose calls made so far, oldest first
    running,           \* the Panda3D task loop is alive
    ticks,             \* update() calls made so far
    tick,              \* what the last update() call did
    store,             \* the record the metrics store holds (the JSON file)
    fps_ema,           \* ProcessFrameUseCase._fps_ema, a fraction <<num, den>>
    since_prev,        \* time.perf_counter() - ProcessFrameUseCase._t_prev
    json_path,         \* the file the path JsonMetricsStore.json_path names
    tmp,               \* the file the path json_path + ".tmp" names, or NoFile
    disk,              \* content of every file: <<>> empty, <<n>> record n
    writer,            \* JsonMetricsStore.write: position, record, writes done
    reader,            \* MetricsRepository.read_metrics: position, open file
    lastRead,          \* what the last read_metrics call returned
    capacity,          \* RingBufferMetrics: the maxlen its deque was built with
    buf,               \* RingBufferMetrics._buf, oldest record first
    pushed,            \* every record pushed so far, oldest first
    snap,              \* the last snapshot(n) call: n and the list returned
    fn_call,           \* the last call of a domain/metrics.py function
    yolo,              \* the last YoloV8PoseEstimator.infer call
    pose_ema,          \* PoseService._ema: None or the average, a fraction
    pose_since,        \* time.time() - PoseService._last
    model_calls,       \* PoseModel.infer calls made by the web API
    sink,              \* the API's RingBufferMetrics._buf, oldest first
    requests,          \* requests the web API has answered
    req,               \* the last request
    resp,              \* the response to it
    max_points,        \* HistoryBuffer.max_points
    df,                \* HistoryBuffer.df, its rows oldest first
    added,             \* the metrics of every add_metrics call that returned
    add_call,          \* the last add_metrics call: its input, what it raised
    cam_cap,           \* Cv2Camera.cap: None, or the capture and whether
                       \* it is opened
    cam_calls,         \* the calls made on the camera so far, oldest first
    data_file,         \* what the path MetricsRepository.data_file names
    EMPTY_METRICS,     \* presentation/dashboard/config.EMPTY_METRICS
    wall_clock,        \* time.time() of the dashboard process
    read_call          \* the last read_metrics call: file found, outcome

rigVars == <<actorParts, FIXED_OVERRIDES, controlled, base_hpr, hpr, calls>>
loopVars == <<running, ticks, tick, store, fps_ema, since_prev>>
storeVars == <<json_path, tmp, disk, writer, reader, lastRead>>
ringVars == <<capacity, buf, pushed, snap>>
fnVars == <<fn_call>>
yoloVars == <<yolo>>
apiVars == <<pose_ema, pose_since, model_calls, sink, requests, req, resp>>
histVars == <<max_points, df, added, add_call>>
camVars == <<cam_cap, cam_calls>>
repoVars == <<data_file, EMPTY_METRICS, wall_clock, read_call>>
vars == <<rigVars, loopVars, storeVars, ringVars, fnVars,
          yoloVars, apiVars, histVars, camVars, repoVars>>

\* Number of apply_pose calls explored on one rig.
MaxCalls == 2

\* Number of update() ticks explored in the frame loop.
MaxTicks == 2

\* Number of write() calls and of read_metrics() calls explored on one file.
MaxWrites == 2
MaxReads == 2

----------------------------------------------------------------------------
(* domain/config.py *)

KP_THRES == 25

NOSE == 0
LEYE == 1
REYE == 2
LEAR == 3
REAR == 4
LSHO == 5
RSHO == 6
LELB == 7
RELB == 8
LWR == 9
RWR == 10
LHIP == 11
RHIP == 12
LKNE == 13
RKNE == 14
LANK == 15
RANK == 16

JOINT_MAP ==
    [ L_UPPERARM |-> "mixamorig:LeftArm",
      R_UPPERARM |-> "mixamorig:RightArm",
      L_FOREARM  |-> "mixamorig:LeftForeArm",
      R_FOREARM  |-> "mixamorig:RightForeArm",
      L_HIP      |-> "mixamorig:LeftUpLeg",
      R_HIP      |-> "mixamorig:RightUpLeg",
      L_KNEE     |-> "mixamorig:LeftLeg",
      R_KNEE     |-> "mixamorig:RightLeg",
      L_ANKLE    |-> "mixamorig:LeftFoot",
      R_ANKLE    |-> "mixamorig:RightFoot",
      SPINE      |-> "mixamorig:Spine1",
      HIPS       |-> "mixamorig:Spine" ]

\* JOINT_MAP.values()
JointIds == { JOINT_MAP[r] : r \in DOMAIN JOINT_MAP }

\* An axis table that lacks the entries of the two knees.
AXIS_CFG_noknees ==
    ( "mixamorig:LeftArm"      :> <<"P", -1, 0>> )    @@
    ( "mixamorig:RightArm"     :> <<"P", 1, 1800>> )  @@
    ( "mixamorig:LeftForeArm"  :> <<"P", -1, 0>> )    @@
    ( "mixamorig:RightForeArm" :> <<"P", 1, 0>> )     @@
    ( "mixamorig:LeftUpLeg"    :> <<"R", -1, 1000>> ) @@
    ( "mixamorig:RightUpLeg"   :> <<"R", -1, 1000>> ) @@
    ( "mixamorig:LeftFoot"     :> <<"P", 0, 0>> )     @@
    ( "mixamorig:RightFoot"    :> <<"P", 0, 0>> )     @@
    ( "mixamorig:Spine1"       :> <<"R", 1, 0>> )     @@
    ( "mixamorig:Spine"        :> <<"R", 1, 0>> )

\* joint -> <<axis, sign, offset>>
AXIS_CFG ==
    ( "mixamorig:LeftArm"      :> <<"P", -1, 0>> )    @@
    ( "mixamorig:RightArm"     :> <<"P", 1, 1800>> )  @@
    ( "mixamorig:LeftForeArm"  :> <<"P", -1, 0>> )    @@
    ( "mixamorig:RightForeArm" :> <<"P", 1, 0>> )     @@
    ( "mixamorig:LeftUpLeg"    :> <<"R", -1, 1000>> ) @@
    ( "mixamorig:RightUpLeg"   :> <<"R", -1, 1000>> ) @@
    ( "mixamorig:LeftLeg"      :> <<"P", 0, 0>> )     @@
    ( "mixamorig:RightLeg"     :> <<"P", 0, 0>> )     @@
    ( "mixamorig:LeftFoot"     :> <<"P", 0, 0>> )     @@
    ( "mixamorig:RightFoot"    :> <<"P", 0, 0>> )     @@
    ( "mixamorig:Spine1"       :> <<"R", 1, 0>> )     @@
    ( "mixamorig:Spine"        :> <<"R", 1, 0>> )

\* dict.get(key, default)
DictGet(d, k, default) == IF k \in DOMAIN d THEN d[k] ELSE default

\* The empty dict, and Python's None.
EmptyDict == [k \in {} |-> 0]
None == <<>>

----------------------------------------------------------------------------
(* domain/metrics.py *)

\* math.degrees(math.atan2(dy, dx)) with dy already negated by the caller.
\* The caller computes dy = -(y2 - y1) on floats, so a zero difference
\* arrives as -0.0: atan2(-0.0, dx) is -180 for dx < 0 and -0.0 otherwise.
Atan2Deg(negZeroDy, dy, dx) ==
    CASE dy = 0 /\ dx > 0  -> 0
      [] dy = 0 /\ dx = 0  -> 0
      [] dy = 0 /\ dx < 0  -> IF negZeroDy THEN -1800 ELSE 1800
      [] dy > 0 /\ dx = 0  -> 900
      [] dy < 0 /\ dx = 0  -> -900
      [] dy > 0 /\ dx > 0 /\ dy = dx    -> 450
      [] dy > 0 /\ dx < 0 /\ dy = -dx   -> 1350
      [] dy < 0 /\ dx > 0 /\ -dy = dx   -> -450
      [] dy < 0 /\ dx < 0 /\ dy = dx    -> -1350

\* angle2d without the flip of the Y axis.
angle2d_noflip(p1, p2) ==
    LET dx == p2[1] - p1[1]
        dy == p2[2] - p1[2]
    IN  Atan2Deg(FALSE, dy, dx)

angle2d(p1, p2) ==
    LET dx == p2[1] - p1[1]
        dy == p2[2] - p1[2]
    IN  Atan2Deg(TRUE, -dy, dx)

ang_norm(angle) == ((angle + 1800) % 3600) - 1800

ang_diff(a, b) == ang_norm(a - b)

\* A filter that lets a confidence just under the threshold through.
safe_pt_lax(kps, idx, th) ==
    LET kp == kps[idx + 1]
    IN  IF kp[3] >= th - 1 THEN <<kp[1], kp[2]>> ELSE None

\* A filter that wants the confidence strictly above the threshold.
safe_pt_strict(kps, idx, th) ==
    LET kp == kps[idx + 1]
    IN  IF kp[3] > th THEN <<kp[1], kp[2]>> ELSE None

\* kps is the list of (x, y, conf) triples; idx is 0-based as in the source.
safe_pt(kps, idx, th) ==
    LET kp == kps[idx + 1]
    IN  IF kp[3] >= th THEN <<kp[1], kp[2]>> ELSE None

RECURSIVE SumSeq(_)
SumSeq(q) == IF q = <<>> THEN 0 ELSE Head(q) + SumSeq(Tail(q))

\* Fractions <<num, den>> stand for the floats that are not whole numbers.
Zero == <<0, 1>>
FracEq(a, b) == a[1] * b[2] = b[1] * a[2]

\* kp_metrics that averages the confidence of all the keypoints.
kp_metrics_mean_all(person_kps, kp_th) ==
    LET all     == [i \in DOMAIN person_kps |-> person_kps[i][3]]
        visible == Len(SelectSeq(all, LAMBDA c : c >= kp_th))
        mean    == IF visible > 0 THEN <<SumSeq(all), Len(all)>> ELSE Zero
    IN  <<mean, <<visible, 17>>, visible>>

\* kp_metrics: (mean confidence of the visible keypoints, visible / 17,
\* visible).
kp_metrics(person_kps, kp_th) ==
    LET confs   == SelectSeq([i \in DOMAIN person_kps |-> person_kps[i][3]],
                             LAMBDA c : c >= kp_th)
        visible == Len(confs)
        mean    == IF visible > 0 THEN <<SumSeq(confs), visible>> ELSE Zero
    IN  <<mean, <<visible, 17>>, visible>>

----------------------------------------------------------------------------
(* The inputs: poses *)

\* Keypoint coordinates of two body shapes, indexed by COCO index + 1.
ShapeA ==
    << <<1, 0>>, <<1, 0>>, <<1, 0>>, <<1, 0>>, <<1, 0>>,
       <<2, 1>>, <<1, 1>>,      \* shoulders  L, R
       <<3, 1>>, <<0, 1>>,      \* elbows     L, R
       <<3, 2>>, <<0, 0>>,      \* wrists     L, R
       <<2, 3>>, <<1, 3>>,      \* hips       L, R
       <<2, 4>>, <<0, 4>>,      \* knees      L, R
       <<3, 5>>, <<0, 5>> >>    \* ankles     L, R

ShapeB ==
    << <<1, 0>>, <<1, 0>>, <<1, 0>>, <<1, 0>>, <<1, 0>>,
       <<2, 1>>, <<1, 1>>,
       <<3, 0>>, <<1, 2>>,
       <<2, 0>>, <<2, 2>>,
       <<2, 3>>, <<1, 3>>,
       <<3, 4>>, <<1, 4>>,
       <<3, 5>>, <<1, 4>> >>

Shapes == {ShapeA, ShapeB}

KpIdx == 0 .. 16

\* Which keypoints fall below the threshold in a pose.
OccPatterns ==
    { {},
      {LSHO, RWR, LKNE},
      {LELB, RANK},
      {LWR, RHIP},
      {RSHO, LANK},
      {RELB, RKNE, LHIP},
      KpIdx }

\* A keypoint object that exposes its confidence as `conf`, the attribute
\* apply_pose, ProcessFrameUseCase and draw_pose_overlay read.
ConfKp(x, y, c) == [x |-> x, y |-> y, conf |-> c]

\* domain.entities.Keypoint: dataclass with fields x, y, c.
Keypoint(x, y, c) == [x |-> x, y |-> y, c |-> c]

\* domain.entities.Pose; bbox and score play no part in the mapping.
Pose(kps) == [keypoints |-> kps]

MkPose(shape, occ, hi, lo, entity) ==
    Pose([i \in 1 .. 17 |->
            LET c == IF (i - 1) \in occ THEN lo ELSE hi
            IN  IF entity THEN Keypoint(shape[i][1], shape[i][2], c)
                          ELSE ConfKp(shape[i][1], shape[i][2], c)])

\* The poses apply_pose is called with: both shapes under every occlusion
\* pattern with clear confidences, confidences sitting exactly at and just
\* under KP_THRES, and poses built from the domain entity.
Poses ==
    { MkPose(sh, occ, 90, 0, FALSE) : sh \in Shapes, occ \in OccPatterns }
    \cup { MkPose(ShapeA, occ, KP_THRES, KP_THRES - 1, FALSE) :
             occ \in {{}, {LWR, RHIP}} }
    \cup { MkPose(ShapeB, {}, 90, 0, TRUE) }

----------------------------------------------------------------------------
(* infrastructure/rig/panda3d_rig.py *)

\* Actor.controlJoint(None, part, jname): a NodePath, empty when the part
\* does not expose the joint.  TRUE stands for a non-empty NodePath.
controlJoint(parts, part, jname) ==
    part \in DOMAIN parts /\ jname \in parts[part]

\* _ensure_controlled_joints: try "modelRoot", then every part of the Actor.
ensure_controlled_joints(parts) ==
    { jname \in JointIds :
        \/ controlJoint(parts, "modelRoot", jname)
        \/ \E part \in DOMAIN parts : controlJoint(parts, part, jname) }

\* _fixed_hpr_for that never consults the override table.
fixed_hpr_for_base(jname) == DictGet(base_hpr, jname, <<0, 0, 0>>)

\* _fixed_hpr_for.  ov.get(ch, None) is None exactly when the table has no
\* entry for the channel.
fixed_hpr_for(jname) ==
    LET b  == DictGet(base_hpr, jname, <<0, 0, 0>>)
        ov == DictGet(FIXED_OVERRIDES, jname, EmptyDict)
    IN  << IF "H" \in DOMAIN ov THEN ov["H"] ELSE b[1],
           IF "P" \in DOMAIN ov THEN ov["P"] ELSE b[2],
           IF "R" \in DOMAIN ov THEN ov["R"] ELSE b[3] >>

\* The LVecBase3f handed to setHpr.
AxisVec(axis, angle_deg, f) ==
    IF axis = "H" THEN <<angle_deg, f[2], f[3]>>
    ELSE IF axis = "P" THEN <<f[1], angle_deg, f[3]>>
    ELSE <<f[1], f[2], angle_deg>>

\* _set_axis_angle_fixed without the early return for a joint that is not
\* controlled.
set_axis_angle_fixed_unguarded(st, jname, axis, angle_deg) ==
    LET v == AxisVec(axis, angle_deg, fixed_hpr_for(jname))
    IN  [st EXCEPT !.hpr = IF jname \in DOMAIN @ THEN [@ EXCEPT ![jname] = v] ELSE @,
                   !.writes = Append(@, [joint |-> jname, hpr |-> v])]

\* _set_axis_angle_fixed that turns the joint by angle_deg from where it is.
set_axis_angle_fixed_additive(st, jname, axis, angle_deg) ==
    IF jname \notin controlled THEN st
    ELSE LET now == st.hpr[jname][IF axis = "H" THEN 1 ELSE IF axis = "P" THEN 2 ELSE 3]
             v   == AxisVec(axis, now + angle_deg, fixed_hpr_for(jname))
         IN  [st EXCEPT !.hpr[jname] = v,
                        !.writes = Append(@, [joint |-> jname, hpr |-> v])]

\* _set_axis_angle_fixed.  st carries the joint rotations, the log of
\* setHpr calls and the angles map of the running apply_pose call.
set_axis_angle_fixed(st, jname, axis, angle_deg) ==
    IF jname \notin controlled THEN st
    ELSE LET v == AxisVec(axis, angle_deg, fixed_hpr_for(jname))
         IN  [st EXCEPT !.hpr[jname] = v,
                        !.writes = Append(@, [joint |-> jname, hpr |-> v])]

\* angle * scale, the scale given in tenths (1.0 -> 10, 0.8 -> 8, 0.9 -> 9).
Scaled(angle, scale10) == (angle * scale10) \div 10

\* _apply_vec_to_joint that forgets the scale.
apply_vec_to_joint_noscale(st, jname, p_a, p_b, scale10) ==
    IF p_a = None \/ p_b = None THEN st
    ELSE LET cfg   == DictGet(AXIS_CFG, jname, <<"H", 1, 0>>)
             angle == angle2d(p_a, p_b)
         IN  set_axis_angle_fixed(st, jname, cfg[1], cfg[2] * angle + cfg[3])

\* _apply_vec_to_joint that leaves the sign out: angle + offset.
apply_vec_to_joint_unsigned(st, jname, p_a, p_b, scale10) ==
    IF p_a = None \/ p_b = None THEN st
    ELSE LET cfg   == DictGet(AXIS_CFG, jname, <<"H", 1, 0>>)
             angle == Scaled(angle2d(p_a, p_b), scale10)
         IN  set_axis_angle_fixed(st, jname, cfg[1], angle + cfg[3])

\* _apply_vec_to_joint
apply_vec_to_joint(st, jname, p_a, p_b, scale10) ==
    IF p_a = None \/ p_b = None THEN st
    ELSE LET cfg   == DictGet(AXIS_CFG, jname, <<"H", 1, 0>>)
             angle == Scaled(angle2d(p_a, p_b), scale10)
         IN  set_axis_angle_fixed(st, jname, cfg[1], cfg[2] * angle + cfg[3])

\* out["angles"][key] = value
SetAngle(st, key, value) ==
    [st EXCEPT !.angles = (key :> value) @@ @]

\* A block that records the scaled angle instead of the raw one.
SegmentStep_scaled(st, role, key, p_a, p_b, scale10) ==
    IF p_a # None /\ p_b # None
    THEN SetAngle(apply_vec_to_joint(st, JOINT_MAP[role], p_a, p_b, scale10),
                  key, Scaled(angle2d(p_a, p_b), scale10))
    ELSE st

\* One "if p_a and p_b:" block of apply_pose.
SegmentStep(st, role, key, p_a, p_b, scale10) ==
    IF p_a # None /\ p_b # None
    THEN SetAngle(apply_vec_to_joint(st, JOINT_MAP[role], p_a, p_b, scale10),
                  key, angle2d(p_a, p_b))
    ELSE st

\* A block that takes the difference the other way round.
ElbowStep_swapped(st, role, key, p_s, p_e, p_w) ==
    IF p_s # None /\ p_e # None /\ p_w # None
    THEN LET up  == angle2d(p_s, p_e)
             fo  == angle2d(p_e, p_w)
             rel == ang_diff(up, fo)
             jn  == JOINT_MAP[role]
             cfg == DictGet(AXIS_CFG, jn, <<"P", 1, 0>>)
         IN  SetAngle(set_axis_angle_fixed(st, jn, cfg[1], cfg[2] * rel + cfg[3]),
                      key, rel)
    ELSE st

\* One "if p_s and p_e and p_w:" block of apply_pose.
ElbowStep(st, role, key, p_s, p_e, p_w) ==
    IF p_s # None /\ p_e # None /\ p_w # None
    THEN LET up  == angle2d(p_s, p_e)
             fo  == angle2d(p_e, p_w)
             rel == ang_diff(fo, up)
             jn  == JOINT_MAP[role]
             cfg == DictGet(AXIS_CFG, jn, <<"P", 1, 0>>)
         IN  SetAngle(set_axis_angle_fixed(st, jn, cfg[1], cfg[2] * rel + cfg[3]),
                      key, rel)
    ELSE st

\* kps = [(kp.x, kp.y, kp.conf) for kp in pose.keypoints]: AttributeError
\* when a keypoint has no attribute conf.
HasConf(pose) == \A i \in DOMAIN pose.keypoints : "conf" \in DOMAIN pose.keypoints[i]

KpTuples(pose) ==
    [i \in DOMAIN pose.keypoints |->
        <<pose.keypoints[i].x, pose.keypoints[i].y, pose.keypoints[i].conf>>]

\* The twelve safe_pt results of apply_pose, by COCO index.
SafePoints(kps) == [i \in LSHO .. RANK |-> safe_pt(kps, i, KP_THRES)]

\* apply_pose on the joint rotations h: what the call raised or returned,
\* the setHpr calls it made and the rotations it leaves.
apply_pose(h, pose) ==
    IF ~HasConf(pose)
    THEN [pose |-> pose, raised |-> "AttributeError", pts |-> EmptyDict,
          angles |-> EmptyDict, writes |-> <<>>, hpr |-> h]
    ELSE LET p  == SafePoints(KpTuples(pose))
             s0 == [hpr |-> h, writes |-> <<>>, angles |-> EmptyDict]
             s1 == SegmentStep(s0, "L_UPPERARM", "L_upperarm", p[LSHO], p[LELB], 10)
             s2 == SegmentStep(s1, "R_UPPERARM", "R_upperarm", p[RSHO], p[RELB], 10)
             s3 == ElbowStep(s2, "L_FOREARM", "L_elbow_rel", p[LSHO], p[LELB], p[LWR])
             s4 == ElbowStep(s3, "R_FOREARM", "R_elbow_rel", p[RSHO], p[RELB], p[RWR])
             s5 == SegmentStep(s4, "L_HIP", "L_hip", p[LHIP], p[LKNE], 8)
             s6 == SegmentStep(s5, "R_HIP", "R_hip", p[RHIP], p[RKNE], 8)
             s7 == SegmentStep(s6, "L_KNEE", "L_knee", p[LKNE], p[LANK], 9)
             s8 == SegmentStep(s7, "R_KNEE", "R_knee", p[RKNE], p[RANK], 9)
         IN  [pose |-> pose, raised |-> "", pts |-> p,
              angles |-> s8.angles, writes |-> s8.writes, hpr |-> s8.hpr]

----------------------------------------------------------------------------
(* The rig controller on its own: construction, then apply_pose calls *)

\* The skeletons the controller is constructed on: every joint under
\* "modelRoot"; every joint under another part only (the fallback search);
\* a rig that lacks three of the mapped joints.
ActorRigs ==
    { [modelRoot |-> JointIds],
      [modelRoot |-> {}, Armature |-> JointIds],
      [modelRoot |-> JointIds \ {"mixamorig:LeftArm", "mixamorig:RightLeg",
                                 "mixamorig:LeftFoot"}] }

\* The override tables: the shipped empty one, one that pins channels no
\* joint drives, one that pins the channel the joint drives.
OverrideTables ==
    { EmptyDict,
      ("mixamorig:LeftArm" :> ("H" :> 150)) @@
      ("mixamorig:RightUpLeg" :> (("H" :> 50) @@ ("P" :> -200))),
      ("mixamorig:LeftArm" :> ("P" :> 150)) @@
      ("mixamorig:LeftUpLeg" :> ("R" :> 70)) }

\* np_joint.getHpr() at construction: the bind pose of the skeleton.
BindHpr(jname) ==
    CASE jname = "mixamorig:LeftArm"      -> <<10, 20, 30>>
      [] jname = "mixamorig:RightArm"     -> <<-10, -20, -30>>
      [] jname = "mixamorig:LeftForeArm"  -> <<40, 50, 60>>
      [] jname = "mixamorig:RightForeArm" -> <<-40, -50, -60>>
      [] jname = "mixamorig:LeftUpLeg"    -> <<70, 80, 90>>
      [] jname = "mixamorig:RightUpLeg"   -> <<-70, -80, -90>>
      [] jname = "mixamorig:LeftLeg"      -> <<110, 120, 130>>
      [] jname = "mixamorig:RightLeg"     -> <<-110, -120, -130>>
      [] OTHER                            -> <<0, 0, 0>>

\* No frame loop runs beside the controller.
LoopIdle ==
    /\ running = FALSE
    /\ ticks = 0
    /\ tick = <<>>
    /\ store = <<>>
    /\ fps_ema = Zero
    /\ since_prev = 0

\* No metrics file is in use.
StoreIdle ==
    /\ json_path = 0
    /\ tmp = 0
    /\ disk = <<>>
    /\ writer = <<>>
    /\ reader = <<>>
    /\ lastRead = <<>>

\* No ring buffer is in use.
RingIdle ==
    /\ capacity = 0
    /\ buf = <<>>
    /\ pushed = <<>>
    /\ snap = <<>>

\* No function of domain/metrics.py is being exercised on its own.
FnIdle == fn_call = <<>>

YoloIdle == yolo = <<>>

ApiIdle ==
    /\ pose_ema = <<>>
    /\ pose_since = 0
    /\ model_calls = 0
    /\ sink = <<>>
    /\ requests = 0
    /\ req = <<>>
    /\ resp = <<>>

HistIdle ==
    /\ max_points = 0
    /\ df = <<>>
    /\ added = <<>>
    /\ add_call = <<>>

CamIdle == cam_cap = <<>> /\ cam_calls = <<>>

RepoIdle ==
    /\ data_file = <<>>
    /\ EMPTY_METRICS = <<>>
    /\ wall_clock = 0
    /\ read_call = <<>>

\* Everything outside the machine a specification is about stays idle.
OthersIdle == YoloIdle /\ ApiIdle /\ HistIdle /\ CamIdle /\ RepoIdle

\* Panda3DRigController.__init__
RigInit ==
    /\ actorParts \in ActorRigs
    /\ FIXED_OVERRIDES \in OverrideTables
    /\ controlled = ensure_controlled_joints(actorParts)
    /\ base_hpr = [j \in controlled |-> BindHpr(j)]
    /\ hpr = [j \in controlled |-> BindHpr(j)]
    /\ calls = <<>>

\* rig.apply_pose(pose)
ApplyPose ==
    /\ Len(calls) < MaxCalls
    /\ \E pose \in Poses :
         LET r == apply_pose(hpr, pose)
         IN  /\ hpr' = r.hpr
             /\ calls' = Append(calls, r)
    /\ UNCHANGED <<actorParts, FIXED_OVERRIDES, controlled, base_hpr>>

RigNext == ApplyPose /\ UNCHANGED <<loopVars, storeVars, ringVars, fnVars>>
                     /\ UNCHANGED <<yoloVars, apiVars, histVars, camVars, repoVars>>

\* Only the rig controller is in use.
InitRig == RigInit /\ LoopIdle /\ StoreIdle /\ RingIdle /\ FnIdle /\ OthersIdle

SpecRig == InitRig /\ [][RigNext]_vars

----------------------------------------------------------------------------
(* Vocabulary of the properties below *)

\* The confidence a keypoint object carries, whatever the attribute is called.
Conf(kp) == IF "conf" \in DOMAIN kp THEN kp.conf ELSE kp.c

\* The six two-point segments: key of the angles map, joint driven,
\* COCO indices of the two endpoints, scale in tenths.
SimpleSegs ==
    { [key |-> "L_upperarm", joint |-> "mixamorig:LeftArm",    req |-> <<LSHO, LELB>>, scale10 |-> 10],
      [key |-> "R_upperarm", joint |-> "mixamorig:RightArm",   req |-> <<RSHO, RELB>>, scale10 |-> 10],
      [key |-> "L_hip",      joint |-> "mixamorig:LeftUpLeg",  req |-> <<LHIP, LKNE>>, scale10 |-> 8],
      [key |-> "R_hip",      joint |-> "mixamorig:RightUpLeg", req |-> <<RHIP, RKNE>>, scale10 |-> 8],
      [key |-> "L_knee",     joint |-> "mixamorig:LeftLeg",    req |-> <<LKNE, LANK>>, scale10 |-> 9],
      [key |-> "R_knee",     joint |-> "mixamorig:RightLeg",   req |-> <<RKNE, RANK>>, scale10 |-> 9] }

\* The two forearms: shoulder, elbow, wrist.
ElbowSegs ==
    { [key |-> "L_elbow_rel", joint |-> "mixamorig:LeftForeArm",  req |-> <<LSHO, LELB, LWR>>, scale10 |-> 10],
      [key |-> "R_elbow_rel", joint |-> "mixamorig:RightForeArm", req |-> <<RSHO, RELB, RWR>>, scale10 |-> 10] }

AllSegs == SimpleSegs \cup ElbowSegs

ReqSet(seg) == { seg.req[n] : n \in DOMAIN seg.req }

\* The keypoint of COCO index i in the pose of a call.
KpOf(call, i) == call.pose.keypoints[i + 1]
PtOf(call, i) == <<KpOf(call, i).x, KpOf(call, i).y>>

\* Some required keypoint of the segment is below the threshold.
Occluded(call, seg) == \E i \in ReqSet(seg) : Conf(KpOf(call, i)) < KP_THRES

\* The filter of the call returned a point for every required keypoint.
Available(call, seg) ==
    \A i \in ReqSet(seg) : i \in DOMAIN call.pts /\ call.pts[i] # None

\* Positions in the call's setHpr log that address the joint.
WritesTo(call, j) == { n \in 1 .. Len(call.writes) : call.writes[n].joint = j }

ChIdx(ch) == CASE ch = "H" -> 1 [] ch = "P" -> 2 [] ch = "R" -> 3
Channels == {"H", "P", "R"}

\* The rotation last written to joint j by calls 1 .. k, the bind pose if none.
LastWritten(j, k) ==
    LET W == { i \in 1 .. k : WritesTo(calls[i], j) # {} }
    IN  IF W = {} THEN BindHpr(j)
        ELSE LET m == CHOOSE i \in W : \A i2 \in W : i2 <= i
                 n == CHOOSE n1 \in WritesTo(calls[m], j) :
                        \A n2 \in WritesTo(calls[m], j) : n2 <= n1
             IN  calls[m].writes[n].hpr

----------------------------------------------------------------------------
\* C1: occlusion holds the last pose.  In every apply_pose call where a
\* required keypoint of a segment has confidence below KP_THRES, no setHpr
\* is issued to the segment's joint, the segment's key is absent from the
\* angles map, and the joint's rotation after the call is the one written by
\* the most recent earlier call that wrote it (the bind pose if none did).
C1_OcclusionHoldsLastPose ==
    \A k \in 1 .. Len(calls) : \A seg \in AllSegs :
        Occluded(calls[k], seg) =>
            /\ WritesTo(calls[k], seg.joint) = {}
            /\ seg.key \notin DOMAIN calls[k].angles
            /\ seg.joint \in controlled =>
                 /\ calls[k].hpr[seg.joint] = LastWritten(seg.joint, k - 1)
                 /\ k = Len(calls) => hpr[seg.joint] = LastWritten(seg.joint, k - 1)

\* A second call that occludes a segment whose joint the first call moved
\* away from the bind pose.
C1_Witness ==
    /\ Len(calls) = 2
    /\ calls[2].raised = ""
    /\ \E seg \in AllSegs :
         /\ Occluded(calls[2], seg)
         /\ WritesTo(calls[1], seg.joint) # {}
         /\ hpr[seg.joint] # BindHpr(seg.joint)
         /\ hpr[seg.joint] = calls[1].hpr[seg.joint]

----------------------------------------------------------------------------
\* What a write to a joint must carry on channel ch when `driven` is the
\* value computed for the joint's configured axis: the computed value on
\* that axis, elsewhere the override if the table pins the channel, else the
\* bind-pose value.
ExpectedChannel(j, ch, driven) ==
    LET ov == DictGet(FIXED_OVERRIDES, j, EmptyDict)
    IN  IF ch = AXIS_CFG[j][1] THEN driven
        ELSE IF ch \in DOMAIN ov THEN ov[ch]
        ELSE BindHpr(j)[ChIdx(ch)]

\* The call issued exactly one setHpr to joint j, carrying `driven` on the
\* configured axis and the bind pose (as overridden) on the other two.
OneWrite(call, j, driven) ==
    /\ Cardinality(WritesTo(call, j)) = 1
    /\ \A n \in WritesTo(call, j) : \A ch \in Channels :
         call.writes[n].hpr[ChIdx(ch)] = ExpectedChannel(j, ch, driven)

\* sign * angle2d(p_a, p_b) * scale + offset for a two-point segment.
SimpleDriven(call, seg) ==
    LET cfg == AXIS_CFG[seg.joint]
        a   == angle2d(PtOf(call, seg.req[1]), PtOf(call, seg.req[2]))
    IN  cfg[2] * ((a * seg.scale10) \div 10) + cfg[3]

\* C2: for each of the six two-point segments, when the filter returned both
\* endpoints, apply_pose writes to the mapped joint (if the rig has it) one
\* rotation whose configured axis is sign * angle2d(p_a, p_b) * scale + offset
\* and whose other two axes are the bind-pose values, as modified by any
\* fixed override.
C2_SimpleSegmentWrite ==
    \A k \in 1 .. Len(calls) : \A seg \in SimpleSegs :
        (Available(calls[k], seg) /\ seg.joint \in controlled) =>
            OneWrite(calls[k], seg.joint, SimpleDriven(calls[k], seg))

\* A scaled segment at a non-zero angle, written on a joint that has
\* overrides on its other channels.
C2_Witness ==
    \E k \in 1 .. Len(calls) : \E seg \in SimpleSegs :
        /\ Available(calls[k], seg)
        /\ seg.joint \in controlled
        /\ seg.scale10 # 10
        /\ angle2d(PtOf(calls[k], seg.req[1]), PtOf(calls[k], seg.req[2])) # 0
        /\ seg.joint \in DOMAIN FIXED_OVERRIDES
        /\ WritesTo(calls[k], seg.joint) # {}

\* angle_diff(angle2d(elbow, wrist), angle2d(shoulder, elbow))
ElbowRel(call, seg) ==
    ang_diff(angle2d(PtOf(call, seg.req[2]), PtOf(call, seg.req[3])),
             angle2d(PtOf(call, seg.req[1]), PtOf(call, seg.req[2])))

\* C3: for each forearm, when shoulder, elbow and wrist are all available,
\* apply_pose records relative = ang_diff(angle2d(elbow, wrist),
\* angle2d(shoulder, elbow)) under the *_elbow_rel key and writes
\* sign * relative + offset on the forearm joint's configured axis; when one
\* of the three is unavailable there is neither the key nor a write.
C3_ForearmRelative ==
    \A k \in 1 .. Len(calls) : \A seg \in ElbowSegs :
        IF Available(calls[k], seg)
        THEN /\ seg.key \in DOMAIN calls[k].angles
             /\ calls[k].angles[seg.key] = ElbowRel(calls[k], seg)
             /\ seg.joint \in controlled =>
                  OneWrite(calls[k], seg.joint,
                           AXIS_CFG[seg.joint][2] * ElbowRel(calls[k], seg)
                             + AXIS_CFG[seg.joint][3])
        ELSE /\ seg.key \notin DOMAIN calls[k].angles
             /\ WritesTo(calls[k], seg.joint) = {}

\* One call that bends one forearm (non-zero relative angle, written) while
\* the other forearm has a point missing.
C3_Witness ==
    \E k \in 1 .. Len(calls) : \E s1 \in ElbowSegs : \E s2 \in ElbowSegs :
        /\ Available(calls[k], s1)
        /\ calls[k].angles[s1.key] # 0
        /\ WritesTo(calls[k], s1.joint) # {}
        /\ calls[k].raised = ""
        /\ ~Available(calls[k], s2)

\* C4: the angles map apply_pose returns has as keys exactly the segments
\* whose required keypoints all have confidence >= KP_THRES, and for the six
\* two-point segments the value is the raw angle2d: no scale, sign or offset.
C4_AnglesMap ==
    \A k \in 1 .. Len(calls) :
        calls[k].raised = "" =>
            /\ DOMAIN calls[k].angles =
                 { seg.key : seg \in { s \in AllSegs : ~Occluded(calls[k], s) } }
            /\ \A seg \in SimpleSegs :
                 seg.key \in DOMAIN calls[k].angles =>
                    calls[k].angles[seg.key] =
                        angle2d(PtOf(calls[k], seg.req[1]), PtOf(calls[k], seg.req[2]))

\* A returned map that has some keys and lacks others, holding a scaled
\* segment at a non-zero angle.
C4_Witness ==
    \E k \in 1 .. Len(calls) :
        /\ calls[k].raised = ""
        /\ \E seg \in AllSegs : seg.key \notin DOMAIN calls[k].angles
        /\ \E seg \in SimpleSegs :
             /\ seg.key \in DOMAIN calls[k].angles
             /\ seg.scale10 # 10
             /\ calls[k].angles[seg.key] # 0

\* C5: a joint that was not resolved at construction is never written and
\* never resolved later: the controlled set stays the one construction found,
\* a call that reaches the segment of such a joint returns normally, and
\* the joints written are exactly the resolved joints of the available
\* segments.
C5_UnresolvedJointSkipped ==
    /\ controlled = ensure_controlled_joints(actorParts)
    /\ DOMAIN hpr = controlled
    /\ DOMAIN base_hpr = controlled
    /\ \A k \in 1 .. Len(calls) :
         /\ { calls[k].writes[n].joint : n \in 1 .. Len(calls[k].writes) } =
              { seg.joint : seg \in { s \in AllSegs : Available(calls[k], s) } }
                 \cap controlled
         /\ \A seg \in AllSegs :
              (Available(calls[k], seg) /\ seg.joint \notin controlled) =>
                 calls[k].raised = ""

\* A call in which the segment of an unresolved joint is available while
\* other joints are written.
C5_Witness ==
    \E k \in 1 .. Len(calls) : \E seg \in AllSegs :
        /\ Available(calls[k], seg)
        /\ seg.joint \notin controlled
        /\ Len(calls[k].writes) > 0

\* C6 as stated: every write to a joint sets every channel the override
\* table pins for that joint to the pinned constant.
C6_OverrideAlwaysWins ==
    \A k \in 1 .. Len(calls) : \A n \in 1 .. Len(calls[k].writes) :
        LET w  == calls[k].writes[n]
            ov == DictGet(FIXED_OVERRIDES, w.joint, EmptyDict)
        IN  \A ch \in DOMAIN ov : w.hpr[ChIdx(ch)] = ov[ch]

\* C6 amended: every write to a joint sets every pinned channel other than
\* the axis AXIS_CFG drives for that joint to the pinned constant, whatever
\* the pose; on the driven axis the computed angle is what is written.
C6_OverrideOnUndrivenChannels ==
    \A k \in 1 .. Len(calls) : \A n \in 1 .. Len(calls[k].writes) :
        LET w  == calls[k].writes[n]
            ov == DictGet(FIXED_OVERRIDES, w.joint, EmptyDict)
        IN  \A ch \in DOMAIN ov :
                ch # AXIS_CFG[w.joint][1] => w.hpr[ChIdx(ch)] = ov[ch]

\* A write to a joint with a pinned, undriven channel whose constant differs
\* from the bind pose.
C6_Witness ==
    \E k \in 1 .. Len(calls) : \E n \in 1 .. Len(calls[k].writes) :
        LET w  == calls[k].writes[n]
            ov == DictGet(FIXED_OVERRIDES, w.joint, EmptyDict)
        IN  \E ch \in DOMAIN ov :
                /\ ch # AXIS_CFG[w.joint][1]
                /\ ov[ch] # BindHpr(w.joint)[ChIdx(ch)]
                /\ w.hpr[ChIdx(ch)] = ov[ch]

\* The pose is made of 17 Keypoint entities of the domain model.
IsDomainPose(pose) ==
    /\ Len(pose.keypoints) = 17
    /\ \A i \in 1 .. 17 : DOMAIN pose.keypoints[i] = {"x", "y", "c"}

\* C7 as stated: apply_pose returns normally for every pose made of 17
\* domain Keypoint entities.
C7_ApplyPoseNeverRaises ==
    \A k \in 1 .. Len(calls) :
        IsDomainPose(calls[k].pose) => calls[k].raised = ""

----------------------------------------------------------------------------
(* The frame loop: infrastructure/rig/panda3d_app.py, application/usecases.py *)
(*                                                                         *)
(* Time is counted in units of the 1e-6 s floor of _update_fps, and fps in *)
(* frames per unit.  The "ts" wall-clock stamp of a record is left out.    *)

\* What PoseEstimator.infer returns: the poses and the confidence of the
\* first box, <<>> for None and <<c>> for a float.
Detection(poses, first_conf) == [poses |-> poses, first_conf |-> first_conf]

NoPerson == Detection(<<>>, <<>>)
OnePerson == Detection(<<MkPose(ShapeA, {}, 90, 0, FALSE)>>, <<80>>)
TwoPersons ==
    Detection(<<MkPose(ShapeB, {LWR, RHIP}, 90, 0, FALSE),
                MkPose(ShapeA, {}, 70, 0, FALSE)>>, <<60>>)
HiddenPerson == Detection(<<MkPose(ShapeA, KpIdx, 90, 10, FALSE)>>, <<30>>)
EntityPerson == Detection(<<MkPose(ShapeB, {}, 90, 0, TRUE)>>, <<80>>)

\* What the detector finds in the frames the camera delivers.
Scenes == {NoPerson, OnePerson, TwoPersons, HiddenPerson, EntityPerson}

\* Time that passes between two ticks.
Elapsed == {0, 2}

\* draw_pose_overlay: AttributeError on a keypoint without conf; otherwise
\* the frame is drawn on when some keypoint reaches the threshold.
OverlayRaises(poses) == \E n \in DOMAIN poses : ~HasConf(poses[n])

OverlayDraws(poses) ==
    \E n \in DOMAIN poses : \E i \in DOMAIN poses[n].keypoints :
        poses[n].keypoints[i].conf >= KP_THRES

\* What a further infer on the same frame array can return: the same
\* detection while the frame is untouched; once the overlay has drawn on
\* it, the detector may find the same, one person or nobody.
Redetect(scene, drawn) ==
    IF drawn THEN {scene, NoPerson, OnePerson} ELSE {scene}

Max(a, b) == IF a >= b THEN a ELSE b

\* _update_fps without the floor on dt.
update_fps_nofloor(ema, since) ==
    <<9 * ema[1] * since + ema[2], 10 * ema[2] * since>>

\* _update_fps: ema = 0.9 * ema + 0.1 * (1 / dt), dt = max(1e-6, now - t_prev)
update_fps(ema, since) ==
    LET dt == Max(1, since)
    IN  <<9 * ema[1] * dt + ema[2], 10 * ema[2] * dt>>

\* JsonMetricsStore.init_empty
EmptyMetrics ==
    [persons |-> 0, fps |-> Zero, mean_kp_conf |-> Zero, visible_ratio |-> Zero,
     visible_count |-> 0, pose_conf |-> <<>>, angles |-> EmptyDict]

\* ProcessFrameUseCase.__call__ that returns early, without a write, when
\* nobody was detected.
usecase_call_skip_empty(ema, since, det) ==
    LET ema2 == update_fps(ema, since)
        num  == Len(det.poses)
        m0   == [EmptyMetrics EXCEPT !.persons = num, !.fps = ema2,
                                     !.pose_conf = det.first_conf]
    IN  IF num = 0
        THEN [raised |-> "", fps_ema |-> ema2, metrics |-> <<m0>>, written |-> <<>>]
        ELSE IF ~HasConf(det.poses[1])
        THEN [raised |-> "AttributeError", fps_ema |-> ema2,
              metrics |-> <<>>, written |-> <<>>]
        ELSE LET km == kp_metrics(KpTuples(det.poses[1]), KP_THRES)
                 m  == [m0 EXCEPT !.mean_kp_conf = km[1], !.visible_ratio = km[2],
                                  !.visible_count = km[3]]
             IN  [raised |-> "", fps_ema |-> ema2, metrics |-> <<m>>, written |-> <<m>>]

\* ProcessFrameUseCase.__call__ that takes the keypoint metrics from the
\* last pose returned.
usecase_call_last_pose(ema, since, det) ==
    LET ema2 == update_fps(ema, since)
        num  == Len(det.poses)
        m0   == [EmptyMetrics EXCEPT !.persons = num, !.fps = ema2,
                                     !.pose_conf = det.first_conf]
    IN  IF num > 0 /\ ~HasConf(det.poses[num])
        THEN [raised |-> "AttributeError", fps_ema |-> ema2,
              metrics |-> <<>>, written |-> <<>>]
        ELSE LET km == kp_metrics(KpTuples(det.poses[num]), KP_THRES)
                 m  == IF num > 0
                       THEN [m0 EXCEPT !.mean_kp_conf = km[1],
                                       !.visible_ratio = km[2],
                                       !.visible_count = km[3]]
                       ELSE m0
             IN  [raised |-> "", fps_ema |-> ema2, metrics |-> <<m>>, written |-> <<m>>]

\* ProcessFrameUseCase.__call__ once infer has returned det: the new FPS
\* average, the metrics dict returned and the records handed to the store.
usecase_call(ema, since, det) ==
    LET ema2 == update_fps(ema, since)
        num  == Len(det.poses)
        m0   == [EmptyMetrics EXCEPT !.persons = num, !.fps = ema2,
                                     !.pose_conf = det.first_conf]
    IN  IF num > 0 /\ ~HasConf(det.poses[1])
        THEN [raised |-> "AttributeError", fps_ema |-> ema2,
              metrics |-> <<>>, written |-> <<>>]
        ELSE LET km == kp_metrics(KpTuples(det.poses[1]), KP_THRES)
                 m  == IF num > 0
                       THEN [m0 EXCEPT !.mean_kp_conf = km[1],
                                       !.visible_ratio = km[2],
                                       !.visible_count = km[3]]
                       ELSE m0
             IN  [raised |-> "", fps_ema |-> ema2, metrics |-> <<m>>, written |-> <<m>>]

\* metrics.setdefault("angles", {}).update(rig_metrics.get("angles", {}))
MergeAngles(m, angles) == [m EXCEPT !.angles = angles @@ @]

\* Panda3DView._update_metrics(frame, poses, first_conf); det2 is what the
\* use case's own infer on the frame returns.  ProcessFrameUseCase has no
\* from_poses, so the use case is called with the frame.
update_metrics(h, ema, since, det, det2) ==
    LET uc == usecase_call(ema, since, det2)
    IN  IF uc.raised # ""
        THEN [raised |-> uc.raised, fps_ema |-> uc.fps_ema, written |-> uc.written,
              rig |-> <<>>, hpr |-> h, metrics |-> <<>>]
        ELSE IF det.poses # <<>>
        THEN LET r == apply_pose(h, det.poses[1])
                 m == MergeAngles(uc.metrics[1], r.angles)
             IN  IF r.raised # ""
                 THEN [raised |-> r.raised, fps_ema |-> uc.fps_ema,
                       written |-> uc.written, rig |-> <<r>>, hpr |-> r.hpr,
                       metrics |-> <<>>]
                 ELSE [raised |-> "", fps_ema |-> uc.fps_ema,
                       written |-> Append(uc.written, m), rig |-> <<r>>,
                       hpr |-> r.hpr, metrics |-> <<m>>]
        ELSE [raised |-> "", fps_ema |-> uc.fps_ema, written |-> uc.written,
              rig |-> <<>>, hpr |-> h, metrics |-> uc.metrics]

\* The record of one update(): camera result, exception that left the task,
\* detections returned by the infer calls in order, _update_fps calls,
\* records written to the store in order, apply_pose calls, metrics shown.
TickRecord(ok, raised, infers, fpsUpdates, written, rig, metrics) ==
    [ok |-> ok, raised |-> raised, infers |-> infers, fpsUpdates |-> fpsUpdates,
     written |-> written, rig |-> rig, metrics |-> metrics]

Last(q) == q[Len(q)]

\* main(): ProcessFrameUseCase.__init__ (init_empty), then Panda3DView.__init__
\* with the rig controller built on the loaded Actor and the shipped tables.
LoopInit ==
    /\ actorParts \in ActorRigs
    /\ FIXED_OVERRIDES = EmptyDict
    /\ controlled = ensure_controlled_joints(actorParts)
    /\ base_hpr = [j \in controlled |-> BindHpr(j)]
    /\ hpr = [j \in controlled |-> BindHpr(j)]
    /\ calls = <<>>
    /\ running = TRUE
    /\ ticks = 0
    /\ tick = <<>>
    /\ store = EmptyMetrics
    /\ fps_ema = Zero
    /\ since_prev = 0

\* An update that counts a failed read as a frame for the FPS average.
UpdateNoFrame_fps ==
    /\ running /\ ticks < MaxTicks
    /\ \E e \in Elapsed :
         /\ fps_ema' = update_fps(fps_ema, since_prev + e)
         /\ since_prev' = 0
    /\ ticks' = ticks + 1
    /\ tick' = TickRecord(FALSE, "", <<>>, 0, <<>>, <<>>, <<>>)
    /\ UNCHANGED <<rigVars, running, store>>
    /\ UNCHANGED <<storeVars, ringVars, fnVars>>
    /\ UNCHANGED <<yoloVars, apiVars, histVars, camVars, repoVars>>

\* Panda3DView.update when camera_dev.read() fails: return task.cont.
UpdateNoFrame ==
    /\ running /\ ticks < MaxTicks
    /\ \E e \in Elapsed : since_prev' = since_prev + e
    /\ ticks' = ticks + 1
    /\ tick' = TickRecord(FALSE, "", <<>>, 0, <<>>, <<>>, <<>>)
    /\ UNCHANGED <<rigVars, running, store, fps_ema>>
    /\ UNCHANGED <<storeVars, ringVars, fnVars>>
    /\ UNCHANGED <<yoloVars, apiVars, histVars, camVars, repoVars>>

\* Panda3DView.update on a frame whose overlay raises: the exception leaves
\* the task and ends the loop.
UpdateOverlayRaises ==
    /\ running /\ ticks < MaxTicks
    /\ \E e \in Elapsed : \E scene \in Scenes :
         /\ OverlayRaises(scene.poses)
         /\ since_prev' = since_prev + e
         /\ tick' = TickRecord(TRUE, "AttributeError", <<scene>>, 0, <<>>, <<>>, <<>>)
    /\ ticks' = ticks + 1
    /\ running' = FALSE
    /\ UNCHANGED <<rigVars, store, fps_ema>>
    /\ UNCHANGED <<storeVars, ringVars, fnVars>>
    /\ UNCHANGED <<yoloVars, apiVars, histVars, camVars, repoVars>>

\* Panda3DView.update on a frame: _infer, draw_pose_overlay, _update_metrics
\* (HUD text and texture blit are rendering only).
UpdateFrame ==
    /\ running /\ ticks < MaxTicks
    /\ \E e \in Elapsed : \E scene \in Scenes :
         /\ ~OverlayRaises(scene.poses)
         /\ \E det2 \in Redetect(scene, OverlayDraws(scene.poses)) :
              \E u \in {update_metrics(hpr, fps_ema, since_prev + e, scene, det2)} :
                  /\ tick' = TickRecord(TRUE, u.raised, <<scene, det2>>, 1,
                                        u.written, u.rig, u.metrics)
                  /\ hpr' = u.hpr
                  /\ fps_ema' = u.fps_ema
                  /\ since_prev' = 0
                  /\ store' = IF u.written = <<>> THEN store ELSE Last(u.written)
                  /\ running' = (u.raised = "")
    /\ ticks' = ticks + 1
    /\ UNCHANGED <<actorParts, FIXED_OVERRIDES, controlled, base_hpr, calls>>
    /\ UNCHANGED <<storeVars, ringVars, fnVars>>
    /\ UNCHANGED <<yoloVars, apiVars, histVars, camVars, repoVars>>

LoopNext == UpdateNoFrame \/ UpdateOverlayRaises \/ UpdateFrame

\* The frame loop on a rig, the metrics file left aside.
InitLoop == LoopInit /\ StoreIdle /\ RingIdle /\ FnIdle /\ OthersIdle

SpecLoop == InitLoop /\ [][LoopNext]_vars

----------------------------------------------------------------------------
(* Properties of the frame loop *)

ZeroRecord(m) ==
    /\ m.persons = 0
    /\ FracEq(m.mean_kp_conf, Zero)
    /\ FracEq(m.visible_ratio, Zero)
    /\ m.visible_count = 0
    /\ m.angles = EmptyDict

\* C8: in every tick in which the camera read succeeds, the pose
\* detector's infer is invoked exactly once for that frame.
C8_InferOncePerFrame ==
    (ticks > 0 /\ tick.ok) => Len(tick.infers) = 1

\* C9: when the detector returns zero poses for the camera frame, the tick
\* raises nothing, makes no apply_pose call (and so no joint write), and
\* writes exactly one record, which the store then holds, with persons 0,
\* mean_kp_conf 0.0, visible_ratio 0.0, visible_count 0 and an empty angles
\* map; and whenever the use case's own detection is empty, the record the
\* use case writes has those values and nothing is raised by it.
C9_ZeroPosesIsNormal ==
    (ticks > 0 /\ tick.ok) =>
        /\ tick.infers[1].poses = <<>> =>
                /\ tick.raised = ""
                /\ running
                /\ tick.rig = <<>>
                /\ Len(tick.written) = 1
                /\ ZeroRecord(tick.written[1])
                /\ store = tick.written[1]
        /\ (Len(tick.infers) = 2 /\ tick.infers[2].poses = <<>>) =>
                /\ tick.written # <<>>
                /\ ZeroRecord(tick.written[1])
                /\ tick.raised = ""

\* A tick without poses after a tick that posed the rig: the joints keep
\* the rotations of the earlier tick and the store holds a zero record
\* that carries the new FPS average.
C9_Witness ==
    /\ ticks = 2 /\ tick.ok
    /\ tick.infers[1].poses = <<>>
    /\ \E j \in controlled : hpr[j] # base_hpr[j]
    /\ tick.written # <<>>
    /\ store.persons = 0
    /\ ~FracEq(store.fps, Zero)

----------------------------------------------------------------------------
(* The metrics file: infrastructure/dashboard/json_store.py written by the *)
(* frame loop's process, presentation/dashboard/repository.py read by the  *)
(* dashboard's process.                                                    *)
(*                                                                         *)
(* Files are numbered; a path names a file, an open handle keeps the file  *)
(* it was opened on.  The n-th write() call carries record n; record 0 is  *)
(* the one init_empty wrote.  A record is far smaller than the io buffer,  *)
(* so its text reaches the file in one piece when the file is closed.      *)

NoFile == 0

\* The file init_empty left behind.
FirstFile == 1

\* The file the n-th write() creates under the .tmp path.
TmpFile(n) == FirstFile + n

Writer(pc, metrics, done) == [pc |-> pc, metrics |-> metrics, done |-> done]

Reader(pc, file, from, done) == [pc |-> pc, file |-> file, from |-> from, done |-> done]

\* json.load of a file's text: the record, or JSONDecodeError on no text.
json_load(text) ==
    IF text = <<>> THEN [raised |-> "JSONDecodeError", value |-> 0]
                   ELSE [raised |-> "", value |-> text[1]]

\* The dict read_metrics returns: a record that was written, or the copy of
\* EMPTY_METRICS; between is the range of records write() was handed from
\* the last finished write at open() to the latest started at return.
ReadResult(kind, rec, from, to) == [kind |-> kind, rec |-> rec, from |-> from, to |-> to]

\* ProcessFrameUseCase.__init__ has run init_empty; the dashboard is idle.
StoreInit ==
    /\ json_path = FirstFile
    /\ tmp = NoFile
    /\ disk = [f \in {FirstFile} |-> <<0>>]
    /\ writer = Writer("idle", 0, 0)
    /\ reader = Reader("idle", NoFile, 0, 0)
    /\ lastRead = ReadResult("none", 0, 0, 0)

\* write(): open(tmp, "w") creates the file empty.
WriteOpenTmp ==
    /\ writer.pc = "idle" /\ writer.done < MaxWrites
    /\ writer' = Writer("tmp_open", writer.done + 1, writer.done)
    /\ tmp' = TmpFile(writer.done + 1)
    /\ disk' = (TmpFile(writer.done + 1) :> <<>>) @@ disk
    /\ UNCHANGED <<json_path, reader, lastRead>>
    /\ UNCHANGED <<rigVars, loopVars, ringVars, fnVars>>
    /\ UNCHANGED <<yoloVars, apiVars, histVars, camVars, repoVars>>

\* write(): json.dump and the end of the with block put the text in tmp.
WriteCloseTmp ==
    /\ writer.pc = "tmp_open"
    /\ disk' = [disk EXCEPT ![tmp] = <<writer.metrics>>]
    /\ writer' = [writer EXCEPT !.pc = "tmp_closed"]
    /\ UNCHANGED <<json_path, tmp, reader, lastRead>>
    /\ UNCHANGED <<rigVars, loopVars, ringVars, fnVars>>
    /\ UNCHANGED <<yoloVars, apiVars, histVars, camVars, repoVars>>

\* write(): os.replace(tmp, json_path) succeeds.
Replace ==
    /\ writer.pc = "tmp_closed"
    /\ json_path' = tmp
    /\ tmp' = NoFile
    /\ writer' = [writer EXCEPT !.pc = "finally"]
    /\ UNCHANGED <<disk, reader, lastRead>>
    /\ UNCHANGED <<rigVars, loopVars, ringVars, fnVars>>
    /\ UNCHANGED <<yoloVars, apiVars, histVars, camVars, repoVars>>

\* write(): os.replace raises PermissionError, as it does on Windows while
\* another process holds json_path open.
ReplaceDenied ==
    /\ writer.pc = "tmp_closed"
    /\ reader.pc = "open" /\ reader.file = json_path
    /\ writer' = [writer EXCEPT !.pc = "denied"]
    /\ UNCHANGED <<json_path, tmp, disk, reader, lastRead>>
    /\ UNCHANGED <<rigVars, loopVars, ringVars, fnVars>>
    /\ UNCHANGED <<yoloVars, apiVars, histVars, camVars, repoVars>>

\* write(), except branch: open(json_path, "w") truncates the file in place.
FallbackOpen ==
    /\ writer.pc = "denied"
    /\ disk' = [disk EXCEPT ![json_path] = <<>>]
    /\ writer' = [writer EXCEPT !.pc = "fallback_open"]
    /\ UNCHANGED <<json_path, tmp, reader, lastRead>>
    /\ UNCHANGED <<rigVars, loopVars, ringVars, fnVars>>
    /\ UNCHANGED <<yoloVars, apiVars, histVars, camVars, repoVars>>

\* write(), except branch: json.dump and the end of the with block.
FallbackClose ==
    /\ writer.pc = "fallback_open"
    /\ disk' = [disk EXCEPT ![json_path] = <<writer.metrics>>]
    /\ writer' = [writer EXCEPT !.pc = "finally"]
    /\ UNCHANGED <<json_path, tmp, reader, lastRead>>
    /\ UNCHANGED <<rigVars, loopVars, ringVars, fnVars>>
    /\ UNCHANGED <<yoloVars, apiVars, histVars, camVars, repoVars>>

\* write(), finally: remove tmp if it still exists; write() returns.
RemoveTmp ==
    /\ writer.pc = "finally"
    /\ tmp' = NoFile
    /\ writer' = Writer("idle", writer.metrics, writer.done + 1)
    /\ UNCHANGED <<json_path, disk, reader, lastRead>>
    /\ UNCHANGED <<rigVars, loopVars, ringVars, fnVars>>
    /\ UNCHANGED <<yoloVars, apiVars, histVars, camVars, repoVars>>

\* read_metrics(): open(data_file, "r").
ReadOpen ==
    /\ reader.pc = "idle" /\ reader.done < MaxReads
    /\ reader' = Reader("open", json_path, writer.done, reader.done)
    /\ UNCHANGED <<json_path, tmp, disk, writer, lastRead>>
    /\ UNCHANGED <<rigVars, loopVars, ringVars, fnVars>>
    /\ UNCHANGED <<yoloVars, apiVars, histVars, camVars, repoVars>>

\* read_metrics(): json.load(file), the file is closed, and the record is
\* returned, or the copy of EMPTY_METRICS on JSONDecodeError.
ReadLoad ==
    /\ reader.pc = "open"
    /\ LET r == json_load(disk[reader.file])
       IN  lastRead' = IF r.raised = ""
                       THEN ReadResult("record", r.value, reader.from, writer.metrics)
                       ELSE ReadResult("EMPTY_METRICS", 0, reader.from, writer.metrics)
    /\ reader' = Reader("idle", NoFile, 0, reader.done + 1)
    /\ UNCHANGED <<json_path, tmp, disk, writer>>
    /\ UNCHANGED <<rigVars, loopVars, ringVars, fnVars>>
    /\ UNCHANGED <<yoloVars, apiVars, histVars, camVars, repoVars>>

\* No rig and no frame loop take part.
RigIdle ==
    /\ actorParts = EmptyDict
    /\ FIXED_OVERRIDES = EmptyDict
    /\ controlled = {}
    /\ base_hpr = EmptyDict
    /\ hpr = EmptyDict
    /\ calls = <<>>

StoreNext ==
    \/ WriteOpenTmp \/ WriteCloseTmp \/ Replace \/ ReplaceDenied
    \/ FallbackOpen \/ FallbackClose \/ RemoveTmp
    \/ ReadOpen \/ ReadLoad

\* Only the metrics file is in use.
InitStore == RigIdle /\ LoopIdle /\ StoreInit /\ RingIdle /\ FnIdle /\ OthersIdle

SpecStore == InitStore /\ [][StoreNext]_vars

----------------------------------------------------------------------------
(* Properties of the metrics file *)

\* C10: a reader running concurrently with write(), in any interleaving of
\* the writer's steps and on the PermissionError path too, never gets a
\* torn or partial record: every read returns a complete record, the one
\* the file held before the write or the one being written.
C10_ReadsNeverTorn ==
    lastRead.kind # "none" =>
        /\ lastRead.kind = "record"
        /\ lastRead.rec \in lastRead.from .. lastRead.to

----------------------------------------------------------------------------
(* The ring buffer: infrastructure/persistence/ring_buffer.py, read by    *)
(* GET /api/metrics?n=k through MetricsService.snapshot.                   *)

\* Largest capacity, number of pushes and largest n of snapshot(n) explored.
MaxCapacity == 3
MaxPushes == 4
MaxSnap == 5

\* The Metrics objects pushed; a number stands for one object's __dict__.
MetricsObjects == 1 .. 3

\* list(q)[-n:] for n >= 1
LastN(q, n) == SubSeq(q, Max(1, Len(q) - n + 1), Len(q))

\* deque(maxlen=cap).append(m)
deque_append(q, cap, m) ==
    IF cap = 0 THEN q
    ELSE IF Len(q) = cap THEN Append(Tail(q), m)
    ELSE Append(q, m)

\* RingBufferMetrics.snapshot that slices from the old end, list(buf)[:n].
snapshot_oldest(q, n) ==
    IF n <= 0 THEN q ELSE SubSeq(q, 1, IF n < Len(q) THEN n ELSE Len(q))

\* RingBufferMetrics.snapshot
snapshot(q, n) == IF n <= 0 THEN q ELSE LastN(q, n)

\* What is remembered of a snapshot call: n, the list returned, and how
\* many pushes had been made when it ran.
Snap(called, n, out, at) == [called |-> called, n |-> n, out |-> out, at |-> at]

\* RingBufferMetrics.__init__(capacity)
RingInit ==
    /\ capacity \in 0 .. MaxCapacity
    /\ buf = <<>>
    /\ pushed = <<>>
    /\ snap = Snap(FALSE, 0, <<>>, 0)

\* RingBufferMetrics.push(m)
Push ==
    /\ Len(pushed) < MaxPushes
    /\ \E m \in MetricsObjects :
         /\ buf' = deque_append(buf, capacity, m)
         /\ pushed' = Append(pushed, m)
    /\ UNCHANGED <<capacity, snap>>
    /\ UNCHANGED <<rigVars, loopVars, storeVars, fnVars>>
    /\ UNCHANGED <<yoloVars, apiVars, histVars, camVars, repoVars>>

\* RingBufferMetrics.snapshot(n), n as parsed from the query string.
Snapshot ==
    /\ \E n \in -1 .. MaxSnap :
         snap' = Snap(TRUE, n, snapshot(buf, n), Len(pushed))
    /\ UNCHANGED <<capacity, buf, pushed>>
    /\ UNCHANGED <<rigVars, loopVars, storeVars, fnVars>>
    /\ UNCHANGED <<yoloVars, apiVars, histVars, camVars, repoVars>>

RingNext == Push \/ Snapshot

\* Only the ring buffer is in use.
InitRing == RigIdle /\ LoopIdle /\ StoreIdle /\ RingInit /\ FnIdle /\ OthersIdle

SpecRing == InitRing /\ [][RingNext]_vars

----------------------------------------------------------------------------
(* Properties of the ring buffer *)

Min(a, b) == IF a <= b THEN a ELSE b

\* The k most recent of the first m pushes, in push order.
Recent(m, k) == [i \in 1 .. k |-> pushed[m - k + i]]

\* C11: after any sequence of pushes the buffer holds at most capacity
\* records, the most recently pushed ones in push order, and snapshot(n)
\* for n >= 1 returns at most n records: the min(n, size) most recent
\* pushes in push order.
C11_RingKeepsLatest ==
    /\ Len(buf) <= capacity
    /\ buf = Recent(Len(pushed), Min(capacity, Len(pushed)))
    /\ (snap.called /\ snap.n >= 1) =>
          /\ Len(snap.out) <= snap.n
          /\ snap.out = Recent(snap.at, Min(snap.n, Min(capacity, snap.at)))

\* More pushes than the buffer holds, then a snapshot that asks for fewer
\* records than are kept.
C11_Witness ==
    /\ Len(pushed) > capacity
    /\ snap.called /\ snap.at = Len(pushed)
    /\ snap.n >= 1 /\ snap.n < Len(buf)
    /\ snap.out # <<>>
    /\ \E i \in DOMAIN buf : buf[i] # buf[1]

----------------------------------------------------------------------------
(* domain/metrics.py in floating point.                                    *)
(*                                                                         *)
(* The rig model above works on angles whose sums are exact.  Here the     *)
(* angle functions are computed as Python computes them on floats: every   *)
(* sum is rounded to nearest, ties to even, and % is Python's float        *)
(* remainder.  The format is binary floating point with a significand of   *)
(* Precision bits instead of 53; a number n stands for n / Grid degrees.   *)

Grid == 16
Precision == 11

Deg(d) == d * Grid

Abs(x) == IF x < 0 THEN -x ELSE x

RECURSIVE Pow2(_)
Pow2(n) == IF n = 0 THEN 1 ELSE 2 * Pow2(n - 1)

\* The spacing of the floats around m >= 0.
RECURSIVE UlpFrom(_, _)
UlpFrom(m, u) == IF m < u * Pow2(Precision) THEN u ELSE UlpFrom(m, 2 * u)

UlpOf(n) == UlpFrom(Abs(n), 1)

\* Round to the nearest float, ties to the even significand.
Round(n) ==
    LET u == UlpOf(n)
        q == n \div u
        r == n - q * u
    IN  IF 2 * r < u THEN q * u
        ELSE IF 2 * r > u THEN (q + 1) * u
        ELSE IF q % 2 = 0 THEN q * u ELSE (q + 1) * u

IsFloat(n) == Round(n) = n

\* x + y and x - y on floats
FAdd(x, y) == Round(x + y)
FSub(x, y) == Round(x - y)

\* x % y on floats, y > 0: C's fmod, which is exact and has the sign of x,
\* then + y when the remainder is negative.
FMod(x, y) ==
    IF x >= 0 THEN x % y
    ELSE LET m == -((-x) % y)
         IN  IF m = 0 THEN 0 ELSE FAdd(m, y)

\* ang_norm that leaves the wrap out.
ang_norm_float_nowrap(angle) == FSub(FAdd(angle, Deg(180)), Deg(180))

\* ang_norm that wraps with period 270.
ang_norm_float_270(angle) ==
    FSub(FMod(FAdd(angle, Deg(180)), Deg(270)), Deg(180))

\* ang_norm: (angle + 180.0) % 360.0 - 180.0
ang_norm_float(angle) ==
    FSub(FMod(FAdd(angle, Deg(180)), Deg(360)), Deg(180))

\* ang_diff computed on a + b.
ang_diff_float_sum(a, b) == ang_norm_float(FAdd(a, b))

\* ang_diff: ang_norm(a - b)
ang_diff_float(a, b) == ang_norm_float(FSub(a, b))

\* The floats within two spacings of x.
FloatsNear(x) == {n \in (x - 2 * UlpOf(x)) .. (x + 2 * UlpOf(x)) : IsFloat(n)}

\* The angles the functions are called with: the multiples of 45 degrees
\* up to two turns either way, their neighbouring floats, and a few angles
\* between.
AngleInputs ==
    UNION {FloatsNear(Deg(45 * k)) : k \in -16 .. 16}
        \cup {Round(Deg(45 * k) + 7 * Grid + 3) : k \in -16 .. 16}

FnCall(fn, args, result) == [fn |-> fn, args |-> args, result |-> result]

\* Nothing has been called yet.
FnInit == fn_call = FnCall("none", <<>>, 0)

\* ang_norm(angle)
CallAngNorm ==
    /\ fn_call.fn = "none"
    /\ \E angle \in AngleInputs :
         fn_call' = FnCall("ang_norm", <<angle>>, ang_norm_float(angle))
    /\ UNCHANGED <<rigVars, loopVars, storeVars, ringVars>>
    /\ UNCHANGED <<yoloVars, apiVars, histVars, camVars, repoVars>>

\* ang_diff(a, b)
CallAngDiff ==
    /\ fn_call.fn = "none"
    /\ \E a \in AngleInputs : \E b \in AngleInputs :
         fn_call' = FnCall("ang_diff", <<a, b>>, ang_diff_float(a, b))
    /\ UNCHANGED <<rigVars, loopVars, storeVars, ringVars>>
    /\ UNCHANGED <<yoloVars, apiVars, histVars, camVars, repoVars>>

\* The points angle2d is called with; the result is in tenths of a degree.
Points == {<<x, y>> : x \in -1 .. 1, y \in -1 .. 1}

\* angle2d(p1, p2), between points one of the eight compass directions apart
CallAngle2d ==
    /\ fn_call.fn = "none"
    /\ \E p1 \in Points : \E p2 \in Points :
         /\ \/ p1[1] = p2[1]
            \/ p1[2] = p2[2]
            \/ Abs(p2[1] - p1[1]) = Abs(p2[2] - p1[2])
         /\ fn_call' = FnCall("angle2d", <<p1, p2>>, angle2d(p1, p2))
    /\ UNCHANGED <<rigVars, loopVars, storeVars, ringVars>>
    /\ UNCHANGED <<yoloVars, apiVars, histVars, camVars, repoVars>>

\* Confidences and thresholds, in hundredths, around each other.
ConfValues == {0, 24, 25, 26, 50, 100}
Thresholds == {0, 25, 50}

\* Keypoint lists of (x, y, conf) triples, two keypoints long.
KpLists ==
    {<<<<1, 3, c1>>, <<x2, 4, c2>>>> : c1 \in ConfValues, c2 \in ConfValues, x2 \in {1, 2}}

\* safe_pt(kps, idx, th) with idx an index of the list
CallSafePt ==
    /\ fn_call.fn = "none"
    /\ \E kps \in KpLists : \E idx \in 0 .. 1 : \E th \in Thresholds :
         fn_call' = FnCall("safe_pt", <<kps, idx, th>>, safe_pt(kps, idx, th))
    /\ UNCHANGED <<rigVars, loopVars, storeVars, ringVars>>
    /\ UNCHANGED <<yoloVars, apiVars, histVars, camVars, repoVars>>

\* Which of the 17 keypoints carry a high confidence: the first k, or every
\* m-th one.
VisibleSets ==
    {1 .. k : k \in 0 .. 17}
        \cup {{i \in 1 .. 17 : i % m = r} : m \in 2 .. 4, r \in 0 .. 1}

\* Lists of 17 (x, y, conf) triples: high confidences 25, 45, 65, 85 in
\* turn on the chosen keypoints, one low confidence on the others.
Kp17Lists ==
    {[i \in 1 .. 17 |->
        <<i, 2 * i, IF i \in V THEN 25 + 20 * ((i * step) % 4) ELSE lo>>] :
            V \in VisibleSets, step \in 0 .. 2, lo \in {0, 24}}

\* kp_metrics(person_kps, kp_th)
CallKpMetrics ==
    /\ fn_call.fn = "none"
    /\ \E kps \in Kp17Lists : \E th \in {KP_THRES, 50} :
         fn_call' = FnCall("kp_metrics", <<kps, th>>, kp_metrics(kps, th))
    /\ UNCHANGED <<rigVars, loopVars, storeVars, ringVars>>
    /\ UNCHANGED <<yoloVars, apiVars, histVars, camVars, repoVars>>

FnNext ==
    \/ CallAngNorm \/ CallAngDiff \/ CallAngle2d
    \/ CallSafePt \/ CallKpMetrics

\* Only the functions of domain/metrics.py are in use.
InitFn == RigIdle /\ LoopIdle /\ StoreIdle /\ RingIdle /\ FnInit /\ OthersIdle

SpecFn == InitFn /\ [][FnNext]_vars

----------------------------------------------------------------------------
(* Properties of the angle functions *)

\* C12 as stated: ang_norm(a) lies in (-180, 180], strictly above -180 and
\* at most 180, for a = 180 and a = -180 and their 360-multiples too.
C12_NormInHalfOpenRange ==
    fn_call.fn = "ang_norm" =>
        /\ fn_call.result > -Deg(180)
        /\ fn_call.result <= Deg(180)

\* C12, amended: every result of ang_norm (and so of ang_diff) lies in the
\* closed interval [-180, 180], and 180, -180 and their 360-multiples are
\* all mapped to -180.
C12_NormInClosedRange ==
    /\ fn_call.fn \in {"ang_norm", "ang_diff"} =>
          /\ fn_call.result >= -Deg(180)
          /\ fn_call.result <= Deg(180)
    /\ (fn_call.fn = "ang_norm" /\ (fn_call.args[1] - Deg(180)) % Deg(360) = 0) =>
          fn_call.result = -Deg(180)

\* ang_norm(180.0) has returned -180.0.
C12_Witness ==
    /\ fn_call.fn = "ang_norm"
    /\ fn_call.args = <<Deg(180)>>
    /\ fn_call.result = -Deg(180)

\* The rounding allowed between two results computed from a and b: four
\* spacings of the floats at the size of the largest intermediate value.
Tol(a, b) == 4 * UlpOf(Abs(a) + Abs(b) + Deg(360))

\* normalize(angle_diff(a, b) + b) for the ang_diff call c.
RoundTrip(c) == ang_norm_float(FAdd(c.result, c.args[2]))

\* C13 as stated: normalize(angle_diff(a, b) + b) equals normalize(a), to
\* within rounding.
C13_RoundTripEqual ==
    fn_call.fn = "ang_diff" =>
        Abs(RoundTrip(fn_call) - ang_norm_float(fn_call.args[1]))
            <= Tol(fn_call.args[1], fn_call.args[2])

\* C13, amended: normalize(angle_diff(a, b) + b) and normalize(a) are the
\* same direction: they agree to within rounding, or they are the two ends
\* -180 and 180 of the range, 360 apart to within rounding.
C13_RoundTripSameDirection ==
    fn_call.fn = "ang_diff" =>
        LET d == Abs(RoundTrip(fn_call) - ang_norm_float(fn_call.args[1]))
            t == Tol(fn_call.args[1], fn_call.args[2])
        IN  d <= t \/ d >= Deg(360) - t

\* normalize(a) is -180 and the round trip comes back just under +180.
C13_Witness ==
    /\ fn_call.fn = "ang_diff"
    /\ ang_norm_float(fn_call.args[1]) = -Deg(180)
    /\ RoundTrip(fn_call) > Deg(179)
    /\ RoundTrip(fn_call) < Deg(180)

\* angle_diff(a + 360, b) for the ang_diff call c.
Shifted(c) == ang_diff_float(FAdd(c.args[1], Deg(360)), c.args[2])

\* C14 as stated: angle_diff(a, b) equals angle_diff(a + 360, b), to within
\* rounding.
C14_PeriodicEqual ==
    fn_call.fn = "ang_diff" =>
        Abs(fn_call.result - Shifted(fn_call))
            <= Tol(FAdd(fn_call.args[1], Deg(360)), fn_call.args[2])

\* C14, amended: angle_diff(a, b) and angle_diff(a + 360, b) are the same
\* direction: they agree to within rounding, or they are the two ends -180
\* and 180 of the range, 360 apart to within rounding.
C14_PeriodicSameDirection ==
    fn_call.fn = "ang_diff" =>
        LET d == Abs(fn_call.result - Shifted(fn_call))
            t == Tol(FAdd(fn_call.args[1], Deg(360)), fn_call.args[2])
        IN  d <= t \/ d >= Deg(360) - t

\* a - b sits at the wrap: one of the two differences is -180 and the
\* other is just under +180.
C14_Witness ==
    /\ fn_call.fn = "ang_diff"
    /\ Abs(fn_call.result - Shifted(fn_call)) > Deg(359)
    /\ -Deg(180) \in {fn_call.result, Shifted(fn_call)}

----------------------------------------------------------------------------
(* Properties of angle2d, safe_pt and kp_metrics *)

\* C15 as stated: angle2d((0,0),(1,0)) is 0 and angle2d((0,0),(0,1)) is
\* +90: a second point with larger y than the first and equal x yields +90.
C15_LargerYIsPlus90 ==
    fn_call.fn = "angle2d" =>
        LET p1 == fn_call.args[1]
            p2 == fn_call.args[2]
        IN  /\ (p1 = <<0, 0>> /\ p2 = <<1, 0>>) => fn_call.result = 0
            /\ (p1[1] = p2[1] /\ p2[2] > p1[2]) => fn_call.result = 900

\* C15, amended: angle2d((0,0),(1,0)) is 0 and angle2d((0,0),(0,1)) is -90:
\* with equal x, a second point with larger y (lower on the screen) yields
\* -90 and one with smaller y (higher on the screen) yields +90.
C15_LargerYIsMinus90 ==
    fn_call.fn = "angle2d" =>
        LET p1 == fn_call.args[1]
            p2 == fn_call.args[2]
        IN  /\ (p1 = <<0, 0>> /\ p2 = <<1, 0>>) => fn_call.result = 0
            /\ (p1[1] = p2[1] /\ p2[2] > p1[2]) => fn_call.result = -900
            /\ (p1[1] = p2[1] /\ p2[2] < p1[2]) => fn_call.result = 900

\* angle2d((0,0),(0,1)) has returned -90.
C15_Witness ==
    /\ fn_call.fn = "angle2d"
    /\ fn_call.args = <<<<0, 0>>, <<0, 1>>>>
    /\ fn_call.result = -900

\* C16: safe_pt(kps, i, th) returns None if and only if the confidence of
\* kps[i] is below th, and otherwise returns exactly (x, y) of kps[i]; a
\* confidence equal to the threshold is available.
C16_SafePointIffBelow ==
    fn_call.fn = "safe_pt" =>
        LET kp == fn_call.args[1][fn_call.args[2] + 1]
            th == fn_call.args[3]
        IN  /\ (fn_call.result = None) <=> (kp[3] < th)
            /\ (kp[3] >= th) => fn_call.result = <<kp[1], kp[2]>>

\* A keypoint whose confidence equals the threshold has been returned,
\* next to one that is below it.
C16_Witness ==
    /\ fn_call.fn = "safe_pt"
    /\ fn_call.args[2] = 1
    /\ fn_call.args[1][2][3] = fn_call.args[3]
    /\ fn_call.args[1][1][3] < fn_call.args[3]
    /\ fn_call.result = <<fn_call.args[1][2][1], fn_call.args[1][2][2]>>

\* The sum of f over the finite set S.
RECURSIVE SumOver(_, _)
SumOver(S, f) ==
    IF S = {} THEN 0
    ELSE LET i == CHOOSE j \in S : TRUE
         IN  f[i] + SumOver(S \ {i}, f)

\* C17: on 17 keypoints kp_metrics returns visible_count = the number of
\* keypoints with confidence >= th, visible_ratio = visible_count / 17,
\* within [0, 1], and the mean confidence over the visible keypoints only,
\* or 0.0 when none is visible.
C17_KpMetricsValues ==
    fn_call.fn = "kp_metrics" =>
        LET kps  == fn_call.args[1]
            th   == fn_call.args[2]
            vis  == {i \in DOMAIN kps : kps[i][3] >= th}
            conf == [i \in DOMAIN kps |-> kps[i][3]]
            mean  == fn_call.result[1]
            ratio == fn_call.result[2]
            count == fn_call.result[3]
        IN  /\ count = Cardinality(vis)
            /\ FracEq(ratio, <<count, 17>>)
            /\ ratio[2] > 0 /\ 0 <= ratio[1] /\ ratio[1] <= ratio[2]
            /\ mean[2] > 0
            /\ IF vis = {} THEN FracEq(mean, Zero)
               ELSE mean[1] * count = SumOver(vis, conf) * mean[2]

\* Ten of the 17 keypoints are at or above 0.25, one of them exactly at it,
\* the others just below: count 10 and ratio 10/17.
C17_Witness ==
    /\ fn_call.fn = "kp_metrics"
    /\ fn_call.args[2] = KP_THRES
    /\ fn_call.result[3] = 10
    /\ fn_call.result[2] = <<10, 17>>
    /\ \E i \in 1 .. 17 : fn_call.args[1][i][3] = KP_THRES
    /\ \E i \in 1 .. 17 : fn_call.args[1][i][3] = KP_THRES - 1
    /\ ~FracEq(fn_call.result[1], <<KP_THRES, 1>>)

----------------------------------------------------------------------------
(* Properties of the rig controller across calls *)

\* What a call made on the rig as constructed, before any other call,
\* gives for the pose of call c.
FreshCall(c) == apply_pose(base_hpr, c.pose)

RigTablesKept ==
    /\ base_hpr' = base_hpr
    /\ FIXED_OVERRIDES' = FIXED_OVERRIDES
    /\ controlled' = controlled

\* C18: apply_pose retains no per-frame state.  Whatever calls came before,
\* a call returns the angles map and issues the joint writes that the same
\* Pose gives on the rig as constructed; two calls in a row with the same
\* Pose leave the same joint rotations; and base_hpr and FIXED_OVERRIDES
\* are left unchanged by every call (JOINT_MAP and AXIS_CFG are constants).
C18_NoRetainedState ==
    /\ [](/\ \A i \in DOMAIN calls :
               /\ calls[i].raised = FreshCall(calls[i]).raised
               /\ calls[i].angles = FreshCall(calls[i]).angles
               /\ calls[i].writes = FreshCall(calls[i]).writes
          /\ \A i \in DOMAIN calls : \A j \in DOMAIN calls :
               calls[i].pose = calls[j].pose =>
                   /\ calls[i].angles = calls[j].angles
                   /\ calls[i].writes = calls[j].writes
                   /\ (j = i + 1) => calls[j].hpr = calls[i].hpr
          /\ base_hpr = [j \in controlled |-> BindHpr(j)])
    /\ [][RigTablesKept]_vars

\* The same Pose applied twice in a row on a rig it rotates.
C18_Witness ==
    /\ Len(calls) = 2
    /\ calls[1].pose = calls[2].pose
    /\ calls[2].writes # <<>>
    /\ calls[2].angles # EmptyDict
    /\ \E j \in controlled : hpr[j] # base_hpr[j]

----------------------------------------------------------------------------
(* Properties of the frame loop: several poses, frames per second *)

\* C19: when the detector returns several poses, only the first drives the
\* rig and the keypoint metrics: the one apply_pose call of the tick is made
\* with poses[0], the angles map written is the one that call returned,
\* mean_kp_conf, visible_ratio and visible_count are kp_metrics of poses[0],
\* and persons is the number of poses returned.
C19_OnlyFirstPoseConsumed ==
    (ticks > 0 /\ tick.ok /\ Len(tick.infers) = 2 /\ tick.raised = "") =>
        LET seen == tick.infers[1]
            det  == tick.infers[2]
            m    == tick.written[1]
        IN  /\ m.persons = Len(det.poses)
            /\ det.poses # <<>> =>
                  LET km == kp_metrics(KpTuples(det.poses[1]), KP_THRES)
                  IN  /\ m.mean_kp_conf = km[1]
                      /\ m.visible_ratio = km[2]
                      /\ m.visible_count = km[3]
            /\ seen.poses # <<>> =>
                  /\ Len(tick.rig) = 1
                  /\ tick.rig[1].pose = seen.poses[1]
                  /\ tick.rig[1].writes = FreshCall(tick.rig[1]).writes
                  /\ Len(tick.written) = 2
                  /\ tick.written[2].angles = tick.rig[1].angles
                  /\ store = tick.written[2]
                  /\ store.persons = Len(det.poses)

\* Two persons in the frame, seen by both detections of the tick: persons
\* is 2 and the rig was posed.
C19_Witness ==
    /\ ticks > 0 /\ tick.ok /\ tick.raised = ""
    /\ tick.infers = <<TwoPersons, TwoPersons>>
    /\ store.persons = 2
    /\ tick.rig # <<>> /\ tick.rig[1].writes # <<>>
    /\ store.angles # EmptyDict

\* A tick in which the use case processed a frame.
Processed(t) == t.ok /\ Len(t.infers) = 2

\* ema2 = 0.9 * ema + 0.1 * (1 / dt), on fractions
EmaStep(ema, dt, ema2) ==
    10 * dt * ema2[1] * ema[2] = ema2[2] * (9 * dt * ema[1] + ema[2])

FpsUpdatedOnce ==
    IF ticks' = ticks + 1 /\ Processed(tick')
    THEN /\ tick'.fpsUpdates = 1
         /\ \E e \in Elapsed :
              EmaStep(fps_ema, Max(1, since_prev + e), fps_ema')
    ELSE fps_ema' = fps_ema

\* C20: the FPS value starts at 0 and is updated exactly once per processed
\* frame by ema' = 0.9 * ema + 0.1 * (1 / max(floor, dt)), dt the time since
\* the previous processed frame; the reported fps is finite and
\* non-negative after every frame, also when no time has passed.
C20_FpsEma ==
    /\ [](/\ fps_ema[2] > 0 /\ fps_ema[1] >= 0
          /\ ticks = 0 => fps_ema = Zero
          /\ (ticks > 0 /\ Processed(tick) /\ tick.written # <<>>) =>
                 \A i \in DOMAIN tick.written : tick.written[i].fps = fps_ema)
    /\ [][FpsUpdatedOnce]_vars

\* Two frames processed with no time between them: twice the floored
\* step, 0.1 and then 0.19 frames per floor interval.
C20_Witness ==
    /\ ticks = 2 /\ Processed(tick)
    /\ FracEq(fps_ema, <<19, 100>>)
    /\ store.fps = fps_ema

----------------------------------------------------------------------------
(* infrastructure/pose/yolov8_ultralytics.py *)

MaxPersons == 2
MaxKeypoints == 2

\* Building a dataclass instance from keyword arguments: every field of
\* the class has no default, so a call that leaves one out raises
\* TypeError before any object exists.
dataclass_init(fields, kwargs) ==
    IF fields \subseteq DOMAIN kwargs
    THEN [raised |-> "", obj |-> <<kwargs>>]
    ELSE [raised |-> "TypeError", obj |-> <<>>]

\* The fields of domain.entities.Pose, none of which has a default.
PoseFields == {"keypoints", "bbox", "score"}

\* The call with bbox and score supplied.
PoseOfKeypoints_full(pose_kps) ==
    dataclass_init(PoseFields,
                   [keypoints |-> pose_kps, bbox |-> <<0, 0, 0, 0>>,
                    score |-> 0])

\* Pose(keypoints=pose_kps), as infer writes the call.
PoseOfKeypoints(pose_kps) ==
    dataclass_init(PoseFields, [keypoints |-> pose_kps])

\* [Keypoint(float(x), float(y), float(c)) for (x, y, c) in person]
pose_kps_of(person) ==
    [j \in 1 .. Len(person) |->
        Keypoint(person[j][1], person[j][2], person[j][3])]

\* res.boxes is not None and res.boxes.conf is not None
\* and len(res.boxes.conf) > 0
HasBoxConf(res) ==
    /\ res.boxes # None
    /\ res.boxes[1].conf # None
    /\ Len(res.boxes[1].conf[1]) > 0

\* The variant that reads the box confidence whether or not the result
\* has keypoints.
yolo_infer_conf_always(res) ==
    [raised |-> "", poses |-> <<>>,
     first_conf |-> IF HasBoxConf(res) THEN <<res.boxes[1].conf[1][1]>>
                    ELSE None]

\* YoloV8PoseEstimator.infer on the first result of the model: what it
\* raised, or the pair (poses, first_conf) it returned.
yolo_infer(res) ==
    IF res.keypoints = None
    THEN [raised |-> "", poses |-> <<>>, first_conf |-> None]
    ELSE LET kps == res.keypoints[1]
             first_conf == IF HasBoxConf(res)
                           THEN <<res.boxes[1].conf[1][1]>>
                           ELSE None
             made == [i \in 1 .. Len(kps) |->
                         PoseOfKeypoints(pose_kps_of(kps[i]))]
         IN  IF \E i \in 1 .. Len(kps) : made[i].raised # ""
             THEN [raised |-> "TypeError", poses |-> <<>>,
                   first_conf |-> None]
             ELSE [raised |-> "",
                   poses |-> [i \in 1 .. Len(kps) |-> made[i].obj[1]],
                   first_conf |-> first_conf]

\* Sequences over S of length lo .. hi.
SeqsOf(S, lo, hi) == UNION { [1 .. n -> S] : n \in lo .. hi }

\* Rows (x, y, c) of the keypoint tensor.
KpRows == { <<10, 20, 90>>, <<30, 40, 80>> }

\* res.keypoints: None, or a tensor [N, points, 3], N = 0 included.
KeypointTensors ==
    {None} \cup
    { <<t>> : t \in SeqsOf(SeqsOf(KpRows, 1, MaxKeypoints), 0, MaxPersons) }

\* res.boxes: None, boxes without confidences, or boxes with a list of
\* confidences (possibly empty).
BoxResults ==
    {None} \cup { <<[conf |-> None]>> }
    \cup { <<[conf |-> <<c>>]>> : c \in SeqsOf({85, 40}, 0, MaxPersons) }

\* results[0] of self.model(frame_bgr, ...).
ModelResults ==
    { [keypoints |-> k, boxes |-> b] :
        k \in KeypointTensors, b \in BoxResults }

YoloCall(called, res, out) == [called |-> called, res |-> res, out |-> out]

YoloInit ==
    yolo = YoloCall(FALSE, [keypoints |-> None, boxes |-> None],
                    [raised |-> "", poses |-> <<>>, first_conf |-> None])

\* One call of infer.  The estimator keeps nothing between calls.
Infer ==
    /\ ~yolo.called
    /\ \E res \in ModelResults : yolo' = YoloCall(TRUE, res, yolo_infer(res))
    /\ UNCHANGED <<rigVars, loopVars, storeVars, ringVars, fnVars>>
    /\ UNCHANGED <<apiVars, histVars, camVars, repoVars>>

YoloNext == Infer

InitYolo ==
    /\ RigIdle /\ LoopIdle /\ StoreIdle /\ RingIdle /\ FnIdle
    /\ YoloInit /\ ApiIdle /\ HistIdle /\ CamIdle /\ RepoIdle

SpecYolo == InitYolo /\ [][YoloNext]_vars

\* The number of persons the result carries keypoints for.
PersonsIn(res) == Len(res.keypoints[1])

\* C21: when the result carries keypoints for N persons and a non-empty
\* list of box confidences, infer returns N Pose objects, each holding one
\* Keypoint per detected point in the detector's order, and the confidence
\* of the first box.
C21_InferReturnsPoses ==
    (/\ yolo.called
     /\ yolo.res.keypoints # None
     /\ HasBoxConf(yolo.res)) =>
        /\ yolo.out.raised = ""
        /\ Len(yolo.out.poses) = PersonsIn(yolo.res)
        /\ \A i \in 1 .. PersonsIn(yolo.res) :
              yolo.out.poses[i].keypoints
                  = pose_kps_of(yolo.res.keypoints[1][i])
        /\ yolo.out.first_conf = <<yolo.res.boxes[1].conf[1][1]>>

\* C22: when the result has no keypoints, infer returns an empty list of
\* poses and None as the confidence, whatever the boxes are, and does not
\* raise.
C22_NoKeypointsNoPoses ==
    (yolo.called /\ yolo.res.keypoints = None) =>
        /\ yolo.out.raised = ""
        /\ yolo.out.poses = <<>>
        /\ yolo.out.first_conf = None

\* A result without keypoints whose boxes do carry a confidence.
C22_Witness ==
    /\ yolo.called
    /\ yolo.res.keypoints = None
    /\ HasBoxConf(yolo.res)
    /\ yolo.out = [raised |-> "", poses |-> <<>>, first_conf |-> None]

----------------------------------------------------------------------------
(* Properties of the joint configuration *)

\* The default _apply_vec_to_joint falls back to for a joint that has no
\* AXIS_CFG entry.
AxisDefault == <<"H", 1, 0>>

\* C23: JOINT_MAP maps exactly 12 roles to 12 distinct joint identifiers,
\* each of them has an AXIS_CFG entry, every AXIS_CFG entry has its axis in
\* {H, P, R} and its sign in {-1, 0, 1}; so every write apply_pose makes
\* goes to a mapped joint under that joint's own entry, never under the
\* default (H, +1, 0): the channels other than the configured axis carry
\* the bind pose as overridden.
C23_JointConfigComplete ==
    /\ Cardinality(DOMAIN JOINT_MAP) = 12
    /\ Cardinality(JointIds) = 12
    /\ JointIds \subseteq DOMAIN AXIS_CFG
    /\ \A j \in DOMAIN AXIS_CFG :
         /\ AXIS_CFG[j][1] \in Channels
         /\ AXIS_CFG[j][2] \in {-1, 0, 1}
    /\ \A j \in JointIds : DictGet(AXIS_CFG, j, AxisDefault) = AXIS_CFG[j]
    /\ \A k \in 1 .. Len(calls) : \A n \in 1 .. Len(calls[k].writes) :
         LET w == calls[k].writes[n]
         IN  /\ w.joint \in JointIds
             /\ \A ch \in Channels \ {AXIS_CFG[w.joint][1]} :
                  w.hpr[ChIdx(ch)] = ExpectedChannel(w.joint, ch, 0)

\* A call on a rig that resolved all twelve joints, writing every joint
\* apply_pose drives, the knees among them.
C23_Witness ==
    /\ controlled = JointIds
    /\ \E k \in 1 .. Len(calls) :
         /\ calls[k].raised = ""
         /\ { calls[k].writes[n].joint : n \in 1 .. Len(calls[k].writes) }
               = { seg.joint : seg \in AllSegs }
         /\ \E n \in 1 .. Len(calls[k].writes) :
               calls[k].writes[n].hpr # BindHpr(calls[k].writes[n].joint)

\* The two knee segments.
KneeSegs == { seg \in SimpleSegs : seg.key \in {"L_knee", "R_knee"} }

\* C26: the knee joints are configured (P, 0, 0), so every write apply_pose
\* makes to mixamorig:LeftLeg or mixamorig:RightLeg carries 0 on the P
\* axis whatever the knee-to-ankle angle is, while the L_knee / R_knee
\* entry of the returned angles map is the raw angle2d(knee, ankle).
C26_KneeWritesZero ==
    /\ \A seg \in KneeSegs : AXIS_CFG[seg.joint] = <<"P", 0, 0>>
    /\ \A k \in 1 .. Len(calls) : \A seg \in KneeSegs :
         /\ \A n \in WritesTo(calls[k], seg.joint) :
              calls[k].writes[n].hpr[ChIdx("P")] = 0
         /\ seg.key \in DOMAIN calls[k].angles =>
              calls[k].angles[seg.key] =
                  angle2d(PtOf(calls[k], seg.req[1]), PtOf(calls[k], seg.req[2]))
         /\ (Available(calls[k], seg) /\ seg.joint \in controlled) =>
              /\ WritesTo(calls[k], seg.joint) # {}
              /\ seg.key \in DOMAIN calls[k].angles

\* A knee whose bind pose is not 0 on P, written by a call whose
\* knee-to-ankle angle is not 0: P is 0 afterwards and the map holds the
\* angle.
C26_Witness ==
    \E k \in 1 .. Len(calls) : \E seg \in KneeSegs :
        /\ WritesTo(calls[k], seg.joint) # {}
        /\ BindHpr(seg.joint)[ChIdx("P")] # 0
        /\ calls[k].angles[seg.key] # 0
        /\ calls[k].hpr[seg.joint][ChIdx("P")] = 0

----------------------------------------------------------------------------
(* Further properties of the frame loop *)

\* mean_kp_conf, visible_ratio and visible_count of record m are those of
\* the pose.
VisibilityOf(m, pose) ==
    LET km == kp_metrics(KpTuples(pose), KP_THRES)
    IN  /\ FracEq(m.mean_kp_conf, km[1])
        /\ FracEq(m.visible_ratio, km[2])
        /\ m.visible_count = km[3]

\* C24: for every processed frame the metrics store receives exactly one
\* record, and when a person was detected in the frame that record is the
\* combined one: its angles map is the map apply_pose returned for the
\* frame and its visibility metrics are those of the frame's first pose.
C24_OneCombinedRecord ==
    (ticks > 0 /\ Processed(tick) /\ tick.raised = "") =>
        /\ Len(tick.written) = 1
        /\ tick.infers[1].poses # <<>> =>
              /\ tick.rig # <<>>
              /\ store = tick.written[1]
              /\ store.angles = tick.rig[1].angles
              /\ VisibilityOf(store, tick.infers[1].poses[1])

\* The step is an update() whose camera read failed.
SkippedFrame == ticks' = ticks + 1 /\ ~tick'.ok

\* C25: in a tick where the camera read fails the frame is skipped: infer
\* is not invoked, no joint is written, no record is written, the FPS
\* average is not updated, nothing is raised and the loop goes on.
C25_FailedReadSkipsFrame ==
    /\ []((ticks > 0 /\ ~tick.ok) =>
            /\ tick.infers = <<>>
            /\ tick.rig = <<>>
            /\ tick.written = <<>>
            /\ tick.fpsUpdates = 0
            /\ tick.raised = ""
            /\ running)
    /\ [][SkippedFrame =>
            /\ UNCHANGED <<hpr, calls, store, fps_ema>>
            /\ running /\ running'
            /\ since_prev' >= since_prev]_vars

\* A failed read after a frame that posed the rig: rotations, record and
\* FPS average of the earlier frame are all still there, and time has
\* passed.
C25_Witness ==
    /\ ticks = 2 /\ ~tick.ok
    /\ running
    /\ store.persons > 0 /\ store.angles # EmptyDict
    /\ \E j \in controlled : hpr[j] # BindHpr(j)
    /\ ~FracEq(fps_ema, Zero)
    /\ since_prev > 0

----------------------------------------------------------------------------
(* presentation/web/api.py, application/services/pose_service.py *)

MaxRequests == 3

\* RingBufferMetrics(capacity=1800) in build_containers
ApiCapacity == 1800

\* Request payloads: no bytes, bytes that are no image, an encoded image.
Payloads == {"", "junk", "jpeg"}

\* POST /infer requests: without a 'frame' file part (the body is read),
\* or with one (the body is not looked at).
InferRequests ==
    { [file |-> None, data |-> d] : d \in Payloads }
    \cup { [file |-> <<b>>, data |-> ""] : b \in Payloads }

\* cv2.imdecode of a build that returns None for an empty buffer too.
imdecode_lenient(bytes) == IF bytes = "jpeg" THEN {"image"} ELSE {"None"}

\* cv2.imdecode(arr, cv2.IMREAD_COLOR): an image, or None for bytes that
\* are no image.  For an empty buffer the result depends on the OpenCV
\* build: older ones return None, the 4.x series fails the assertion
\* !buf.empty() and raises cv2.error.
imdecode(bytes) ==
    CASE bytes = "jpeg" -> {"image"}
      [] bytes = ""     -> {"None", "cv2.error"}
      [] OTHER          -> {"None"}

\* What the pose model finds in a decoded image (max_det = 1).
ApiDetections ==
    { <<>>,
      << [keypoints |-> <<Keypoint(10, 20, 90), Keypoint(30, 40, 80)>>,
          bbox |-> <<0, 0, 5, 5>>, score |-> 85] >> }

\* [kp.c for p in result.poses for kp in p.keypoints], then np.mean
mean_conf(poses) ==
    IF poses = <<>> THEN Zero
    ELSE <<SumSeq([j \in DOMAIN poses[1].keypoints |->
                       poses[1].keypoints[j].c]),
           Len(poses[1].keypoints)>>

\* PoseService.infer_from_bgr: the new average.  dt is the time since the
\* previous call; the first call stores the instantaneous value.
pose_service_ema(ema, dt) ==
    LET inst == IF dt > 0 THEN <<1, dt>> ELSE Zero
    IN  IF ema = None THEN inst
        ELSE <<9 * ema[1][1] * inst[2] + inst[1] * ema[1][2],
               10 * ema[1][2] * inst[2]>>

Response(status, error, body) ==
    [status |-> status, error |-> error, body |-> body]

\* The handler of POST /infer for request r, when imdecode gives dec,
\* dt has passed since the last inference and the model returns poses:
\* the response and the state of the two services afterwards.
api_infer(r, dec, st, e, poses) ==
    LET idle == [st EXCEPT !.since = st.since + e]
        bytes == IF r.file = None THEN r.data ELSE r.file[1]
    IN  IF r.file = None /\ r.data = ""
        THEN [resp |-> Response(400, "no image", <<>>), st |-> idle]
        ELSE IF dec = "cv2.error"
        THEN [resp |-> Response(500, "cv2.error", <<>>), st |-> idle]
        ELSE IF dec = "None"
        THEN [resp |-> Response(400, "bad image", <<>>), st |-> idle]
        ELSE LET ema == pose_service_ema(st.ema, st.since + e)
                 m   == [t |-> st.requests + 1, inference_ms |-> 5,
                         server_fps |-> ema, mean_kp_conf |-> mean_conf(poses)]
             IN  [resp |-> Response(200, "", <<[poses |-> poses,
                                                server_fps |-> ema,
                                                mean_kp_conf |-> m.mean_kp_conf]>>),
                  st |-> [ema |-> <<ema>>, since |-> 0,
                          calls |-> st.calls + 1,
                          buf |-> deque_append(st.buf, ApiCapacity, m),
                          requests |-> st.requests]]

\* create_app(): build_containers
ApiInit ==
    /\ pose_ema = None
    /\ pose_since = 0
    /\ model_calls = 0
    /\ sink = <<>>
    /\ requests = 0
    /\ req = [file |-> None, data |-> ""]
    /\ resp = Response(0, "", <<>>)

\* POST /api/infer
PostInfer ==
    /\ requests < MaxRequests
    /\ \E r \in InferRequests : \E e \in Elapsed : \E poses \in ApiDetections :
         \E dec \in imdecode(IF r.file = None THEN r.data ELSE r.file[1]) :
           \E u \in {api_infer(r, dec,
                               [ema |-> pose_ema, since |-> pose_since,
                                calls |-> model_calls, buf |-> sink,
                                requests |-> requests], e, poses)} :
              /\ req' = r
              /\ resp' = u.resp
              /\ pose_ema' = u.st.ema
              /\ pose_since' = u.st.since
              /\ model_calls' = u.st.calls
              /\ sink' = u.st.buf
    /\ requests' = requests + 1
    /\ UNCHANGED <<rigVars, loopVars, storeVars, ringVars, fnVars>>
    /\ UNCHANGED <<yoloVars, histVars, camVars, repoVars>>

ApiNext == PostInfer

InitApi ==
    /\ RigIdle /\ LoopIdle /\ StoreIdle /\ RingIdle /\ FnIdle
    /\ YoloIdle /\ ApiInit /\ HistIdle /\ CamIdle /\ RepoIdle

SpecApi == InitApi /\ [][ApiNext]_vars

\* The request carries no bytes, or bytes that are no image.
NoUsableImage(r) ==
    IF r.file = None THEN r.data # "jpeg" ELSE r.file[1] # "jpeg"

AnsweredInfer == requests' = requests + 1

\* C27: POST /infer with no image bytes, or with bytes that do not decode
\* to an image, answers 400 with an error object and has no other effect
\* (the model is not invoked, the FPS average is not updated, nothing is
\* pushed to the ring buffer); a request with a decodable image pushes
\* exactly one Metrics entry.
C27_BadImageIs400 ==
    [][AnsweredInfer =>
         IF NoUsableImage(req')
         THEN /\ resp'.status = 400
              /\ resp'.error # ""
              /\ UNCHANGED <<model_calls, pose_ema, sink>>
         ELSE /\ Len(sink') = Len(sink) + 1
              /\ SubSeq(sink', 1, Len(sink)) = sink
              /\ model_calls' = model_calls + 1]_vars

----------------------------------------------------------------------------
(* presentation/dashboard/state.py *)

MaxPointsBound == 2
MaxAdds == 3

\* Python values a metrics dict can hold under a key.  Floats count
\* ten-thousandths (2504 = 0.2504); NaN is a float of its own.
Float(v) == [kind |-> "float", v |-> v]
NaN == [kind |-> "nan", v |-> 0]
Str == [kind |-> "str", v |-> 0]
PyNone == [kind |-> "None", v |-> 0]

\* float(x): the float, or the exception raised.
py_float(x) ==
    CASE x.kind = "float" -> [raised |-> "", val |-> x]
      [] x.kind = "nan"   -> [raised |-> "", val |-> NaN]
      [] x.kind = "str"   -> [raised |-> "ValueError", val |-> x]
      [] OTHER            -> [raised |-> "TypeError", val |-> x]

\* clamp01 that maps NaN to 0.0 as well.
clamp01_nan_safe(x) ==
    LET f == py_float(x)
    IN  IF f.raised # "" THEN Float(0)
        ELSE IF f.val.kind = "nan" THEN Float(0)
        ELSE IF f.val.v < 0 THEN Float(0)
        ELSE IF f.val.v > 10000 THEN Float(10000)
        ELSE f.val

\* clamp01: both comparisons are false for NaN, which is returned as is.
clamp01(x) ==
    LET f == py_float(x)
    IN  IF f.raised # "" THEN Float(0)
        ELSE IF f.val.kind = "nan" THEN f.val
        ELSE IF f.val.v < 0 THEN Float(0)
        ELSE IF f.val.v > 10000 THEN Float(10000)
        ELSE f.val

\* Series.round(3): to the nearest thousandth (the values used are never
\* halfway); NaN stays NaN.
round3(x) ==
    IF x.kind # "float" THEN x
    ELSE Float(((x.v + 5) \div 10) * 10)

\* The row add_metrics builds from the dict and stores, or the exception
\* float() / int() raises on ts, fps, visible_count or pose_conf before
\* anything is stored.  A pose_conf of None is kept as None.
history_row(metrics) ==
    LET ts  == py_float(DictGet(metrics, "ts", Float(0)))
        fps == py_float(DictGet(metrics, "fps", Float(0)))
        vc  == py_float(DictGet(metrics, "visible_count", Float(0)))
        pc0 == DictGet(metrics, "pose_conf", PyNone)
        pc  == IF pc0 = PyNone THEN [raised |-> "", val |-> PyNone]
               ELSE py_float(pc0)
        bad == SelectSeq(<<ts, fps, vc, pc>>, LAMBDA c : c.raised # "")
    IN  IF bad # <<>> THEN [raised |-> bad[1].raised, row |-> <<>>]
        ELSE [raised |-> "",
              row |-> <<[t |-> ts.val,
                         fps |-> round3(fps.val),
                         mean_kp_conf |->
                             round3(clamp01(DictGet(metrics, "mean_kp_conf", Float(0)))),
                         visible_ratio |->
                             round3(clamp01(DictGet(metrics, "visible_ratio", Float(0)))),
                         visible_count |-> vc.val,
                         pose_conf |-> round3(pc.val)]>>]

\* pd.concat([df, DataFrame([row])]).tail(max_points), max_points >= 0
concat_tail(rows, row, n) ==
    IF n = 0 THEN <<>> ELSE LastN(Append(rows, row), n)

\* Values arriving under mean_kp_conf and visible_ratio.
ConfInputs ==
    { Float(-5000), Float(2504), Float(9996), Float(15000), NaN, Str, PyNone }
RatioInputs == { Float(5882), Float(20000) }

\* The keys every dict carries besides the two ratios.
BaseDict(ts) ==
    ("ts" :> ts) @@ ("fps" :> Float(300000)) @@
    ("visible_count" :> Float(100000))

\* The dicts add_metrics is called with: the n-th call carries ts = n;
\* pose_conf is a number, None or absent; one dict lacks mean_kp_conf, one
\* has a ts that is no number, one a pose_conf that is no number.
MetricsDicts(n) ==
    { BaseDict(Float(n)) @@ ("pose_conf" :> Float(8500)) @@
      ("mean_kp_conf" :> c) @@ ("visible_ratio" :> r) :
        c \in ConfInputs, r \in RatioInputs }
    \cup { BaseDict(Float(n)) @@ ("pose_conf" :> PyNone) @@
           ("visible_ratio" :> Float(5882)) }
    \cup { BaseDict(Str) @@
           ("mean_kp_conf" :> Float(2504)) @@ ("visible_ratio" :> Float(5882)) }
    \cup { BaseDict(Float(n)) @@ ("pose_conf" :> Str) @@
           ("mean_kp_conf" :> Float(2504)) @@ ("visible_ratio" :> Float(5882)) }

AddCall(called, metrics, raised) ==
    [called |-> called, metrics |-> metrics, raised |-> raised]

\* HistoryBuffer.__init__
HistInit ==
    /\ max_points \in 0 .. MaxPointsBound
    /\ df = <<>>
    /\ added = <<>>
    /\ add_call = AddCall(FALSE, EmptyDict, "")

\* HistoryBuffer.add_metrics(metrics)
AddMetrics ==
    /\ Len(added) < MaxAdds
    /\ \E m \in MetricsDicts(Len(added) + 1) : \E h \in {history_row(m)} :
         /\ add_call' = AddCall(TRUE, m, h.raised)
         /\ IF h.raised # ""
            THEN UNCHANGED <<df, added>>
            ELSE /\ df' = concat_tail(df, h.row[1], max_points)
                 /\ added' = Append(added, m)
    /\ UNCHANGED max_points
    /\ UNCHANGED <<rigVars, loopVars, storeVars, ringVars, fnVars>>
    /\ UNCHANGED <<yoloVars, apiVars, camVars, repoVars>>

HistNext == AddMetrics

InitHist ==
    /\ RigIdle /\ LoopIdle /\ StoreIdle /\ RingIdle /\ FnIdle
    /\ YoloIdle /\ ApiIdle /\ HistInit /\ CamIdle /\ RepoIdle

SpecHist == InitHist /\ [][HistNext]_vars

\* x is a float in [0, 1].
InUnit(x) == x.kind = "float" /\ x.v >= 0 /\ x.v <= 10000

\* C28: after any sequence of add_metrics calls the buffer holds at most
\* max_points rows, which are the rows of the most recent calls in
\* arrival order, and in every stored row mean_kp_conf and visible_ratio
\* lie in [0, 1], a non-numeric input being stored as 0.0.
C28_HistoryBounded ==
    /\ Len(df) <= max_points
    /\ Len(df) = Min(max_points, Len(added))
    /\ \A i \in 1 .. Len(df) :
         LET m == added[Len(added) - Len(df) + i]
         IN  /\ df[i].t = m["ts"]
             /\ InUnit(df[i].mean_kp_conf)
             /\ InUnit(df[i].visible_ratio)
             /\ ("mean_kp_conf" \in DOMAIN m
                   /\ m["mean_kp_conf"].kind \in {"str", "None"})
                  => df[i].mean_kp_conf = Float(0)

----------------------------------------------------------------------------
(* presentation/dashboard/repository.py, presentation/dashboard/config.py *)

MaxRepoReads == 3

\* EMPTY_METRICS as config.py defines it.
EmptyMetricsConst ==
    [ts |-> 0, persons |-> 0, fps |-> Zero, mean_kp_conf |-> Zero,
     visible_ratio |-> Zero, visible_count |-> 0, pose_conf |-> None,
     angles |-> EmptyDict]

\* What the path can name: nothing, a file the process may not open, a
\* directory, or a file holding no text, the first part of a record's
\* text, bytes that are not UTF-8, or the text of a record.
FileStates ==
    {"missing", "no_permission", "directory",
     "empty", "truncated", "not_utf8", "record"}

\* The cases the property is about: missing, unreadable, invalid.
BadFiles == FileStates \ {"record"}

\* open(data_file, "r", encoding="utf-8") and json.load(file): the
\* exception raised, "" when a record is loaded.
open_and_load(f) ==
    CASE f = "missing"       -> "FileNotFoundError"
      [] f = "no_permission" -> "PermissionError"
      [] f = "directory"     -> "IsADirectoryError"
      [] f = "empty"         -> "JSONDecodeError"
      [] f = "truncated"     -> "JSONDecodeError"
      [] f = "not_utf8"      -> "UnicodeDecodeError"
      [] OTHER               -> ""

\* Subclasses of OSError among the exceptions above.
OSErrors == {"FileNotFoundError", "PermissionError", "IsADirectoryError"}

\* A handler that catches every exception.
Caught_every(exc) == exc # ""

\* except (OSError, json.JSONDecodeError)
Caught(exc) == exc \in OSErrors \cup {"JSONDecodeError"}

\* The record a well-formed file holds.
FileRecord ==
    [ts |-> 1, persons |-> 1, fps |-> <<30, 1>>, mean_kp_conf |-> <<9, 10>>,
     visible_ratio |-> <<10, 17>>, visible_count |-> 10, pose_conf |-> <<85>>,
     angles |-> ("L_knee" :> -450)]

\* read_metrics that stamps EMPTY_METRICS itself instead of a copy.
read_metrics_nocopy(f, const, t) ==
    LET exc == open_and_load(f)
    IN  IF exc = "" THEN [raised |-> "", out |-> <<FileRecord>>, const |-> const]
        ELSE IF Caught(exc)
        THEN [raised |-> "", out |-> <<[const EXCEPT !.ts = t]>>,
              const |-> [const EXCEPT !.ts = t]]
        ELSE [raised |-> exc, out |-> <<>>, const |-> const]

\* MetricsRepository.read_metrics with the file in state f, the constant
\* holding const and time.time() = t: what it raised or returned, and the
\* constant afterwards.
read_metrics(f, const, t) ==
    LET exc == open_and_load(f)
    IN  IF exc = "" THEN [raised |-> "", out |-> <<FileRecord>>, const |-> const]
        ELSE IF Caught(exc)
        THEN [raised |-> "", out |-> <<[const EXCEPT !.ts = t]>>,
              const |-> const]
        ELSE [raised |-> exc, out |-> <<>>, const |-> const]

ReadCall(n, f, t, raised, out) ==
    [n |-> n, file |-> f, at |-> t, raised |-> raised, out |-> out]

\* The dashboard starts: config is imported, MetricsRepository(DATA_FILE).
RepoInit ==
    /\ data_file \in FileStates
    /\ EMPTY_METRICS = EmptyMetricsConst
    /\ wall_clock = 1
    /\ read_call = ReadCall(0, "missing", 0, "", <<>>)

\* Another process creates, removes, rewrites or damages the file.
FileChanges ==
    /\ \E f \in FileStates \ {data_file} : data_file' = f
    /\ UNCHANGED <<EMPTY_METRICS, wall_clock, read_call>>
    /\ UNCHANGED <<rigVars, loopVars, storeVars, ringVars, fnVars>>
    /\ UNCHANGED <<yoloVars, apiVars, histVars, camVars>>

\* repo.read_metrics()
ReadMetrics ==
    /\ read_call.n < MaxRepoReads
    /\ \E u \in {read_metrics(data_file, EMPTY_METRICS, wall_clock)} :
         /\ read_call' = ReadCall(read_call.n + 1, data_file, wall_clock,
                               u.raised, u.out)
         /\ EMPTY_METRICS' = u.const
    /\ wall_clock' = wall_clock + 1
    /\ UNCHANGED data_file
    /\ UNCHANGED <<rigVars, loopVars, storeVars, ringVars, fnVars>>
    /\ UNCHANGED <<yoloVars, apiVars, histVars, camVars>>

RepoNext == FileChanges \/ ReadMetrics

InitRepo ==
    /\ RigIdle /\ LoopIdle /\ StoreIdle /\ RingIdle /\ FnIdle
    /\ YoloIdle /\ ApiIdle /\ HistIdle /\ CamIdle /\ RepoInit

SpecRepo == InitRepo /\ [][RepoNext]_vars

\* C29: read_metrics never raises on a missing, unreadable or invalid
\* metrics file: it returns a copy of EMPTY_METRICS that carries the
\* current time as ts (persons 0, empty angles), and the EMPTY_METRICS
\* constant keeps the values config.py gave it.
C29_ReadNeverRaises ==
    /\ EMPTY_METRICS = EmptyMetricsConst
    /\ (read_call.n > 0 /\ read_call.file \in BadFiles) =>
          /\ read_call.raised = ""
          /\ read_call.out = <<[EmptyMetricsConst EXCEPT !.ts = read_call.at]>>
          /\ read_call.out[1].persons = 0
          /\ read_call.out[1].angles = EmptyDict
          /\ read_call.at > 0

----------------------------------------------------------------------------
(* infrastructure/video/camera_cv2.py *)

MaxCamCalls == 4

\* A cv2.VideoCapture object: isOpened() is TRUE or FALSE.
Capture(opened) == <<[opened |-> opened]>>

\* cv2.VideoCapture.read(): (ok, frame).  An opened capture delivers a
\* frame or fails to grab one; a capture that is not opened gives
\* (False, None).
capture_read(c) ==
    IF c[1].opened THEN { <<TRUE, "frame">>, <<FALSE, "None">> }
    ELSE { <<FALSE, "None">> }

\* What is remembered of a call: the operation, self.cap when it began,
\* the exception it raised and the value it returned.
CamCall(op, before, raised, out) ==
    [op |-> op, before |-> before, raised |-> raised, out |-> out]

\* Cv2Camera.__init__
CamInit ==
    /\ cam_cap = None
    /\ cam_calls = <<>>

\* Cv2Camera.open(): the capture is stored before isOpened() is tested.
CamOpen ==
    /\ Len(cam_calls) < MaxCamCalls
    /\ \E opened \in BOOLEAN :
         /\ cam_cap' = Capture(opened)
         /\ cam_calls' = Append(cam_calls,
                CamCall("open", cam_cap, IF opened THEN "" ELSE "RuntimeError", <<>>))
    /\ UNCHANGED <<rigVars, loopVars, storeVars, ringVars, fnVars>>
    /\ UNCHANGED <<yoloVars, apiVars, histVars, repoVars>>

\* Cv2Camera.read() that also tests isOpened().
CamRead_checked ==
    /\ Len(cam_calls) < MaxCamCalls
    /\ IF cam_cap = None \/ ~cam_cap[1].opened
       THEN cam_calls' = Append(cam_calls, CamCall("read", cam_cap, "RuntimeError", <<>>))
       ELSE \E r \in capture_read(cam_cap) :
              cam_calls' = Append(cam_calls, CamCall("read", cam_cap, "", r))
    /\ UNCHANGED cam_cap
    /\ UNCHANGED <<rigVars, loopVars, storeVars, ringVars, fnVars>>
    /\ UNCHANGED <<yoloVars, apiVars, histVars, repoVars>>

\* Cv2Camera.read(): raises only while self.cap is None.
CamRead ==
    /\ Len(cam_calls) < MaxCamCalls
    /\ IF cam_cap = None
       THEN cam_calls' = Append(cam_calls, CamCall("read", cam_cap, "RuntimeError", <<>>))
       ELSE \E r \in capture_read(cam_cap) :
              cam_calls' = Append(cam_calls, CamCall("read", cam_cap, "", r))
    /\ UNCHANGED cam_cap
    /\ UNCHANGED <<rigVars, loopVars, storeVars, ringVars, fnVars>>
    /\ UNCHANGED <<yoloVars, apiVars, histVars, repoVars>>

\* Cv2Camera.release(): the capture is released and self.cap keeps
\* referring to it; whatever cap.release() raises is swallowed.
CamRelease ==
    /\ Len(cam_calls) < MaxCamCalls
    /\ cam_cap' = IF cam_cap = None THEN None ELSE Capture(FALSE)
    /\ cam_calls' = Append(cam_calls, CamCall("release", cam_cap, "", <<>>))
    /\ UNCHANGED <<rigVars, loopVars, storeVars, ringVars, fnVars>>
    /\ UNCHANGED <<yoloVars, apiVars, histVars, repoVars>>

CamNext == CamOpen \/ CamRead \/ CamRelease

InitCam ==
    /\ RigIdle /\ LoopIdle /\ StoreIdle /\ RingIdle /\ FnIdle
    /\ YoloIdle /\ ApiIdle /\ HistIdle /\ CamInit /\ RepoIdle

SpecCam == InitCam /\ [][CamNext]_vars

\* The camera is open: open() succeeded and release() has not run since.
IsOpen(c) == c # None /\ c[1].opened

\* C30: read() returns the capture's (ok, frame) pair only in states where
\* the camera is open, and raises RuntimeError in every state where it is
\* not: before any open(), after an open() that failed, and after
\* release(); release() never raises and may be called any number of
\* times.
C30_ReadOnlyWhenOpen ==
    \A i \in 1 .. Len(cam_calls) :
        LET c == cam_calls[i]
        IN  /\ c.op = "read" =>
                 IF IsOpen(c.before)
                 THEN c.raised = "" /\ c.out \in capture_read(c.before)
                 ELSE c.raised = "RuntimeError"
            /\ c.op = "release" => c.raised = ""

====
